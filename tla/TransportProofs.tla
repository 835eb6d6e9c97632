---------------------------- MODULE TransportProofs ----------------------------
(* Proofs about Transport, for a response of any length, records and buffers of any size. *)
EXTENDS Transport, TLAPS

-----------------------------------------------------------------------------
(* The inductive invariant *)

\* The buffer has room for all the bytes to come, and holds those that came, the ones a running
\* ssl_recv has put behind b->last included.
Filled ==
    /\ DOMAIN buf = 0..(Total - 1)
    /\ \A k \in 0..(Delivered - 1) : buf[k] = k + 1

\* A client that has ended is not read for.  Without TLS the bytes go from the socket to the buffer.
\* In ssl_recv the next byte goes behind the last one, and there is room for it.
Cursor ==
    /\ outcome # "reading" => pc = "idle"
    /\ ~tls => taken = last /\ pc # "ssl"
    /\ pc = "ssl" => /\ p = last + bytes /\ size = end - p /\ size > 0 /\ Delivered <= taken
                     /\ ssl_last \in {OK, EAGAIN}

\* Nothing is left to read, now
Drained == IF tls THEN Decodable <= Delivered ELSE sent = taken

\* c->ssl->last remembers the end of the stream, or an error, only when no bytes can follow.
EndIsEnd == tls /\ ssl_last \in {DONE, ERROR} => closed # "no" /\ Drained

\* The handler returns to the event loop when nothing is left to read, or when the SSL library waits to
\* write; what arrives from then on is an edge.
Left ==
    pc \in {"parse", "idle"} /\ outcome = "reading" =>
       Drained \/ edge \/ (borrowed /\ send \in {"blocked", "free"})

\* A FIN or RST is an edge until it is reported, and then ends the client.
EofSeen ==
    /\ pending_eof => closed \in {"fin", "rst"}
    /\ outcome = "reading" /\ closed \in {"fin", "rst"} => edge \/ pending_eof
    /\ pending_eof /\ pc = "idle" => outcome # "reading"

\* Behind an EOF that was reported nothing can arrive.
Complete ==
    /\ pc = "parse" /\ pending_eof => Drained \/ send # "no"
    /\ outcome = "done" => Drained \/ send # "no"

Inv == TypeOK /\ Filled /\ Cursor /\ EndIsEnd /\ Left /\ EofSeen /\ Complete
-----------------------------------------------------------------------------
(* Offsets and records *)

\* The smaller of two numbers.
LEMMA MinOfTwo ==
    ASSUME NEW a \in Int, NEW b \in Int
    PROVE  Min({a, b}) = IF a <= b THEN a ELSE b
<1>1. CASE a <= b
  <2>1. a \in {a, b} /\ \A y \in {a, b} : a <= y
    BY <1>1
  <2>2. \A x \in {a, b} : (\A y \in {a, b} : x <= y) => x = a
    BY <1>1
  <2> QED BY <1>1, <2>1, <2>2 DEF Min
<1>2. CASE ~(a <= b)
  <2>1. b \in {a, b} /\ \A y \in {a, b} : b <= y
    BY <1>2
  <2>2. \A x \in {a, b} : (\A y \in {a, b} : x <= y) => x = b
    BY <1>2
  <2> QED BY <1>2, <2>1, <2>2 DEF Min
<1> QED BY <1>1, <1>2

\* The variables that are numbers.
LEMMA Numbers ==
    ASSUME TypeOK
    PROVE  /\ Total \in Nat /\ sent \in Nat /\ taken \in Nat /\ last \in Nat /\ end \in Nat
           /\ p \in Nat /\ size \in Nat /\ bytes \in Nat
           /\ last <= taken /\ taken <= sent /\ sent <= Total /\ last <= end /\ p + size <= end
BY TransportAssumption DEF TypeOK

\* The library decodes no further than the server has sent, and never goes back.
LEMMA DecodableRange ==
    ASSUME TypeOK, Cursor
    PROVE  /\ Delivered \in Nat /\ Delivered <= taken
           /\ Decodable \in Nat /\ taken <= Decodable /\ Decodable <= sent
<1>1. Delivered \in Nat /\ Delivered <= taken
  BY Numbers DEF Delivered, Cursor
<1>2. RecordEnd \in Nat /\ taken <= RecordEnd
  <2>1. RecordEnd = IF taken + Record <= Total THEN taken + Record ELSE Total
    BY Numbers, TransportAssumption, MinOfTwo DEF RecordEnd
  <2> QED BY <2>1, Numbers, TransportAssumption
<1> HIDE DEF RecordEnd
<1>3. /\ Decodable \in Nat /\ taken <= Decodable /\ Decodable <= sent
  BY <1>1, <1>2, Numbers DEF Decodable
<1> QED BY <1>1, <1>3

\* A buffer that is resized has room.
LEMMA Room ==
    ASSUME TypeOK
    PROVE  Resized \in Nat \ {0} /\ end <= Resized /\ last < Resized
BY Numbers, TransportAssumption DEF Resized, resize_temp_buf, TypeOK

\* What is left to read depends on the stream and on what was delivered.
LEMMA SameDrained ==
    ASSUME UNCHANGED <<tls, sent, taken, last, bytes>>, pc = "ssl" <=> pc' = "ssl"
    PROVE  Delivered' = Delivered /\ (Drained' <=> Drained)
<1>1. Delivered' = Delivered
  BY DEF Delivered
<1>2. RecordEnd' = RecordEnd
  BY DEF RecordEnd
<1>3. Decodable' = Decodable
  BY <1>1, <1>2 DEF Decodable
<1> QED BY <1>1, <1>3 DEF Drained

\* The same outside of ssl_recv, where its locals do not count.
LEMMA SameDrainedOutside ==
    ASSUME UNCHANGED <<tls, sent, taken, last>>, pc # "ssl", pc' # "ssl"
    PROVE  Delivered' = Delivered /\ (Drained' <=> Drained)
<1>1. Delivered' = Delivered
  BY DEF Delivered
<1>2. RecordEnd' = RecordEnd
  BY DEF RecordEnd
<1>3. Decodable' = Decodable
  BY <1>1, <1>2 DEF Decodable
<1> QED BY <1>1, <1>3 DEF Drained

-----------------------------------------------------------------------------
(* The server, the network and the kernel *)

\* Bytes arrive: an edge, and the end of the stream has not come.
LEMMA ArriveInv ==
    ASSUME Inv, NEW n \in 1..Total, Arrive(n)
    PROVE  Inv'
<1> USE DEF locals
<1>1. /\ closed = "no" /\ sent' = sent + n /\ sent' <= Total /\ edge' = TRUE /\ outcome = "reading"
      /\ UNCHANGED <<tls, closed, taken, send, borrowed, pending_eof, pc, outcome, buf, last, end,
                     ssl_last, p, size, bytes>>
  BY DEF Arrive, Environment
<1>2. TypeOK'
  <2>1. sent' \in 0..Total /\ taken \in 0..sent'
    BY <1>1, Numbers DEF Inv
  <2> QED BY <1>1, <2>1 DEF Inv, TypeOK
<1>3. Delivered' = Delivered
  BY <1>1 DEF Delivered
<1>4. Filled' /\ Cursor'
  BY <1>1, <1>3 DEF Inv, Filled, Cursor
<1>5. EndIsEnd' /\ Left' /\ EofSeen' /\ Complete'
  BY <1>1 DEF Inv, EndIsEnd, Left, EofSeen, Complete
<1> QED BY <1>2, <1>4, <1>5 DEF Inv

\* The peer ends the stream: an edge.
LEMMA CloseInv ==
    ASSUME Inv, NEW how \in {"notify", "fin", "rst"}, Close(how)
    PROVE  Inv'
<1> USE DEF locals
<1>1. /\ closed \in {"no", "notify"} /\ closed' = how /\ edge' = TRUE /\ outcome = "reading"
      /\ UNCHANGED <<tls, sent, taken, send, borrowed, pending_eof, pc, outcome, buf, last, end,
                     ssl_last, p, size, bytes>>
  BY DEF Close, Environment
<1>2. Delivered' = Delivered /\ (Drained' <=> Drained)
  BY <1>1, SameDrained
<1>3. TypeOK' /\ Filled' /\ Cursor'
  BY <1>1, <1>2 DEF Inv, TypeOK, Filled, Cursor
<1>4. EndIsEnd' /\ Left' /\ EofSeen' /\ Complete'
  BY <1>1, <1>2 DEF Inv, EndIsEnd, Left, EofSeen, Complete
<1> QED BY <1>3, <1>4 DEF Inv

\* The library has to write, and the socket is full or takes data again.
LEMMA SendInv ==
    ASSUME Inv, Renegotiate \/ Writable
    PROVE  Inv'
<1> USE DEF locals
<1>1. /\ send' \in {"blocked", "free"} /\ outcome = "reading" /\ (send' = "free" => send = "blocked")
      /\ send \in {"no", "blocked"} /\ (send' = "blocked" => send = "no")
      /\ UNCHANGED <<tls, sent, closed, taken, edge, borrowed, pending_eof, pc, outcome, buf, last, end,
                     ssl_last, p, size, bytes>>
  BY DEF Renegotiate, Writable, Environment
<1>2. Delivered' = Delivered /\ (Drained' <=> Drained)
  BY <1>1, SameDrained
<1>3. TypeOK' /\ Filled' /\ Cursor'
  BY <1>1, <1>2 DEF Inv, TypeOK, Filled, Cursor
<1>4. EndIsEnd' /\ Left' /\ EofSeen' /\ Complete'
  BY <1>1, <1>2 DEF Inv, EndIsEnd, Left, EofSeen, Complete
<1> QED BY <1>3, <1>4 DEF Inv
-----------------------------------------------------------------------------
(* The handler *)

\* The event loop calls the read handler: it takes the edge, and keeps the EOF it brought.
LEMMA ReportInv ==
    ASSUME Inv, Report \/ ReportOut
    PROVE  Inv'
<1> USE DEF locals, network
<1>1. /\ pc = "idle" /\ outcome = "reading" /\ pc' = "loop"
      /\ pending_eof' \in BOOLEAN /\ edge' \in BOOLEAN /\ send' \in {"no", "blocked", "free", "reported"}
      /\ (pending_eof' => pending_eof \/ closed \in {"fin", "rst"})
      /\ (closed \in {"fin", "rst"} /\ (edge \/ pending_eof) => edge' \/ pending_eof')
      /\ UNCHANGED <<tls, sent, closed, taken, borrowed, outcome, buf, last, end, ssl_last, p, size, bytes>>
  <2>1. CASE Report
    BY <2>1 DEF Report, Inv, TypeOK
  <2>2. CASE ReportOut
    BY <2>2 DEF ReportOut, Inv, TypeOK
  <2> QED BY <2>1, <2>2
<1>2. Delivered' = Delivered /\ (Drained' <=> Drained)
  BY <1>1, SameDrainedOutside
<1>3. TypeOK' /\ Filled' /\ Cursor'
  BY <1>1, <1>2 DEF Inv, TypeOK, Filled, Cursor
<1>4. EndIsEnd' /\ Left' /\ EofSeen' /\ Complete'
  BY <1>1, <1>2 DEF Inv, EndIsEnd, Left, EofSeen, Complete
<1> QED BY <1>3, <1>4 DEF Inv

\* A receive that leaves the buffer as it is: it may have grown, and the handler reads on, goes on to
\* the parser because there is nothing to read, or fails.
LEMMA LeftAsItWas ==
    ASSUME Inv, pc = "loop", end' = Resized,
           UNCHANGED <<tls, sent, closed, taken, edge, send, borrowed, pending_eof, buf, last, ssl_last,
                       p, size, bytes>>,
           \/ pc' = "loop" /\ outcome' = outcome
           \/ pc' = "parse" /\ outcome' = outcome /\ Drained
           \/ pc' = "idle" /\ outcome' = "failed"
    PROVE  Inv'
<1>1. Delivered' = Delivered /\ (Drained' <=> Drained)
  BY SameDrainedOutside
<1>2. end' \in Nat \ {0} /\ last' <= end' /\ p' + size' <= end'
  BY Room, Numbers DEF Inv
<1>3. TypeOK'
  BY <1>2 DEF Inv, TypeOK
<1>4. Filled' /\ Cursor'
  BY <1>1 DEF Inv, Filled, Cursor
<1>5. EndIsEnd' /\ Left' /\ EofSeen' /\ Complete'
  BY <1>1 DEF Inv, EndIsEnd, Left, EofSeen, Complete, Cursor
<1> QED BY <1>3, <1>4, <1>5 DEF Inv

\* recv(): as many bytes as there are and the buffer has room for, none, the end, or an error.
LEMMA UnixRecvInv ==
    ASSUME Inv, unix_recv
    PROVE  Inv'
<1> USE DEF locals, network
<1> DEFINE avail == sent - taken
           n     == Min({avail, Resized - last})
<1>1. /\ pc = "loop" /\ ~tls /\ end' = Resized /\ outcome = "reading"
      /\ UNCHANGED <<tls, sent, closed, edge, send, borrowed, pending_eof, ssl_last, p, size, bytes>>
  BY DEF unix_recv, Inv, Cursor
<1>2. avail \in Nat /\ taken = last
  BY <1>1, Numbers DEF Inv, Cursor
<1>3. CASE /\ avail > 0 /\ buf' = Copy(last, taken, n) /\ last' = last + n /\ taken' = taken + n
           /\ UNCHANGED <<pc, outcome>>
  <2>1. n \in Nat /\ n > 0 /\ n <= avail /\ last + n <= Resized
    <3>1. Resized - last \in Int /\ Resized - last > 0
      BY Room, Numbers DEF Inv
    <3>2. n = IF avail <= Resized - last THEN avail ELSE Resized - last
      BY <1>2, <3>1, MinOfTwo
    <3> HIDE DEF n
    <3> QED BY <1>2, <1>3, <3>1, <3>2, Room, Numbers DEF Inv
  <2> HIDE DEF n
  <2>2. /\ taken' \in 0..sent' /\ last' \in 0..taken' /\ end' \in Nat \ {0} /\ last' <= end'
        /\ p' + size' <= end'
    BY <1>1, <1>2, <1>3, <2>1, Room, Numbers DEF Inv
  <2>3. TypeOK'
    BY <1>1, <1>3, <2>2 DEF Inv, TypeOK
  <2>4. Filled'
    <3>1. Delivered' = last + n /\ Delivered = last
      BY <1>1, <1>3, <2>1, Numbers DEF Delivered, Inv
    <3>2. DOMAIN buf = 0..(Total - 1)
      BY DEF Inv, Filled
    <3>3. /\ DOMAIN buf' = 0..(Total - 1)
          /\ \A k \in 0..(Total - 1) :
                buf'[k] = IF k \in last..(last + n - 1) THEN taken + k - last + 1 ELSE buf[k]
      BY <1>3, <3>2 DEF Copy
    <3>4. ASSUME NEW k \in 0..(Delivered' - 1)
          PROVE  buf'[k] = k + 1
      <4>1. k \in 0..(Total - 1) /\ k \in 0..(last + n - 1)
        BY <3>1, <1>2, <2>1, Numbers DEF Inv
      <4>2. CASE k \in last..(last + n - 1)
        BY <3>3, <4>1, <4>2, <1>2, Numbers DEF Inv
      <4>3. CASE ~(k \in last..(last + n - 1))
        <5>1. k \in 0..(Delivered - 1)
          BY <4>1, <4>3, <3>1, <2>1, Numbers DEF Inv
        <5>2. buf[k] = k + 1
          BY <5>1 DEF Inv, Filled
        <5> QED BY <3>3, <4>1, <4>3, <5>2
      <4> QED BY <4>2, <4>3
    <3> QED BY <3>3, <3>4 DEF Filled
  <2>5. Cursor'
    BY <1>1, <1>2, <1>3 DEF Cursor
  <2>6. EndIsEnd' /\ Left' /\ EofSeen' /\ Complete'
    BY <1>1, <1>3 DEF Inv, EndIsEnd, Left, EofSeen, Complete
  <2> QED BY <2>3, <2>4, <2>5, <2>6 DEF Inv
<1>4. CASE Interrupted
  BY <1>1, <1>4, LeftAsItWas DEF Interrupted, Leave
<1>5. CASE avail = 0 /\ Leave("parse") /\ UNCHANGED outcome
  <2>1. Drained
    BY <1>1, <1>5, Numbers DEF Drained, Inv
  <2> QED BY <1>1, <1>5, <2>1, LeftAsItWas DEF Leave
<1>6. CASE Fails
  BY <1>1, <1>6, LeftAsItWas DEF Fails
<1> QED BY <1>3, <1>4, <1>5, <1>6 DEF unix_recv

\* ssl_recv before its loop: what the last call kept for this one, or room for the first SSL_read.
LEMMA SslBeginInv ==
    ASSUME Inv, SslBegin
    PROVE  Inv'
<1> USE DEF locals, network
<1>1. /\ pc = "loop" /\ tls /\ end' = Resized /\ outcome = "reading"
      /\ UNCHANGED <<tls, sent, closed, edge, send, borrowed, pending_eof, ssl_last>>
  BY DEF SslBegin, Inv, Cursor
<1>2. CASE ssl_last = ERROR
  <2>1. Fails /\ UNCHANGED <<p, size, bytes>>
    BY <1>2 DEF SslBegin, ERROR, DONE
  <2> QED BY <1>1, <2>1, LeftAsItWas DEF Fails
<1>3. CASE ssl_last = DONE
  <2>1. Leave("parse") /\ UNCHANGED <<outcome, p, size, bytes>>
    BY <1>3 DEF SslBegin, ERROR, DONE
  <2>2. Drained
    BY <1>1, <1>3 DEF Inv, EndIsEnd
  <2> QED BY <1>1, <2>1, <2>2, LeftAsItWas DEF Leave
<1>4. CASE ssl_last # ERROR /\ ssl_last # DONE
  <2>1. /\ pc' = "ssl" /\ UNCHANGED <<buf, last, taken, outcome>>
        /\ p' = last /\ size' = Resized - last /\ bytes' = 0
    BY <1>4 DEF SslBegin, Leave
  <2>2. Delivered = last /\ Delivered' = last
    BY <1>1, <2>1, Numbers DEF Delivered, Inv
  <2>3. /\ end' \in Nat \ {0} /\ last' <= end' /\ p' + size' <= end'
        /\ p' \in Nat /\ size' \in Nat /\ size' > 0 /\ bytes' \in Nat
        /\ p' = last' + bytes' /\ size' = end' - p' /\ Delivered' <= taken'
    BY <1>1, <2>1, <2>2, Room, Numbers DEF Inv
  <2>4. TypeOK'
    BY <1>1, <2>1, <2>3 DEF Inv, TypeOK
  <2>5. Filled'
    BY <2>1, <2>2 DEF Inv, Filled
  <2>6. Cursor'
    BY <1>1, <1>4, <2>1, <2>3 DEF Inv, Cursor, TypeOK
  <2>7. EndIsEnd' /\ Left' /\ EofSeen' /\ Complete'
    BY <1>1, <1>4, <2>1 DEF Inv, EndIsEnd, Left, EofSeen, Complete
  <2> QED BY <2>4, <2>5, <2>6, <2>7 DEF Inv
<1> QED BY <1>2, <1>3, <1>4
\* SSL_read returns bytes: they go behind the ones that came before, and the buffer is full or the
\* loop goes on.
LEMMA SslDataInv ==
    ASSUME Inv, pc = "ssl", SslData, UNCHANGED <<tls, sent, closed, edge, pending_eof, end>>
    PROVE  Inv'
<1> DEFINE n == Min({Decodable - Delivered, size})
<1>1. /\ tls /\ outcome = "reading" /\ p = last + bytes /\ size = end - p /\ size > 0
      /\ Delivered = last + bytes /\ Delivered <= taken
  BY DEF Inv, Cursor, Delivered
<1>2. /\ Decodable > Delivered
      /\ buf' = Copy(p, Delivered, n) /\ taken' = Decodable /\ bytes' = bytes + n
      /\ size' = size - n /\ p' = p + n /\ ssl_last' = OK /\ borrowed' = FALSE /\ send' = "no"
      /\ outcome' = outcome
      /\ \/ size = n /\ pc' = "loop" /\ last' = last + bytes + n
         \/ size # n /\ pc' = "ssl" /\ last' = last
  BY DEF SslData, Advance
<1>3. n \in Nat /\ n > 0 /\ n <= size /\ Delivered + n <= Decodable
  <2>1. /\ Decodable \in Nat /\ Delivered \in Nat /\ Decodable - Delivered \in Int /\ size \in Int
    BY DecodableRange, Numbers DEF Inv
  <2>2. n = IF Decodable - Delivered <= size THEN Decodable - Delivered ELSE size
    BY <2>1, MinOfTwo
  <2> HIDE DEF n
  <2> QED BY <1>1, <1>2, <2>1, <2>2, Numbers DEF Inv
<1> HIDE DEF n
<1>4. Delivered' = Delivered + n /\ Delivered' <= taken'
  BY <1>1, <1>2, <1>3, Numbers, DecodableRange DEF Delivered, Inv
<1>5. /\ taken' \in 0..sent' /\ last' \in 0..taken' /\ last' <= end' /\ p' \in Nat /\ size' \in Nat
      /\ bytes' \in Nat /\ p' + size' <= end'
      /\ (pc' = "ssl" => p' = last' + bytes' /\ size' = end' - p' /\ size' > 0)
  <2>1. /\ Delivered \in Nat /\ Decodable \in Nat /\ taken <= Decodable /\ Decodable <= sent
    BY DecodableRange DEF Inv
  <2>2. /\ p' \in Nat /\ size' \in Nat /\ bytes' \in Nat /\ p' + size' <= end'
    BY <1>1, <1>2, <1>3, Numbers DEF Inv
  <2>3. taken' \in 0..sent' /\ last' \in 0..taken' /\ last' <= end'
    BY <1>1, <1>2, <1>3, <2>1, Numbers DEF Inv
  <2>4. ASSUME pc' = "ssl" PROVE p' = last' + bytes' /\ size' = end' - p' /\ size' > 0
    BY <1>1, <1>2, <1>3, <2>4, Numbers DEF Inv
  <2> QED BY <2>2, <2>3, <2>4
<1>6. TypeOK'
  BY <1>1, <1>2, <1>5 DEF Inv, TypeOK
<1>7. Filled'
  <2>1. DOMAIN buf = 0..(Total - 1) /\ p = Delivered
    BY <1>1 DEF Inv, Filled
  <2>2. /\ DOMAIN buf' = 0..(Total - 1)
        /\ \A k \in 0..(Total - 1) :
              buf'[k] = IF k \in p..(p + n - 1) THEN Delivered + k - p + 1 ELSE buf[k]
    BY <1>2, <2>1 DEF Copy
  <2>3. ASSUME NEW k \in 0..(Delivered' - 1)
        PROVE  buf'[k] = k + 1
    <3>1. k \in 0..(Total - 1) /\ k \in 0..(Delivered + n - 1)
      BY <1>3, <1>4, DecodableRange, Numbers DEF Inv
    <3>2. CASE k \in p..(p + n - 1)
      BY <2>1, <2>2, <3>1, <3>2, Numbers DEF Inv
    <3>3. CASE ~(k \in p..(p + n - 1))
      <4>1. k \in 0..(Delivered - 1)
        BY <2>1, <3>1, <3>3, <1>3, DecodableRange, Numbers DEF Inv
      <4>2. buf[k] = k + 1
        BY <4>1 DEF Inv, Filled
      <4> QED BY <2>2, <3>1, <3>3, <4>2
    <3> QED BY <3>2, <3>3
  <2> QED BY <2>2, <2>3 DEF Filled
<1>8. Cursor'
  BY <1>1, <1>2, <1>4, <1>5 DEF Cursor
<1>9. EndIsEnd' /\ Left' /\ EofSeen' /\ Complete'
  BY <1>1, <1>2 DEF Inv, EndIsEnd, Left, EofSeen, Complete, OK, DONE, ERROR
<1> QED BY <1>6, <1>7, <1>8, <1>9 DEF Inv

\* SSL_read returns no bytes: those of the calls before it are returned, and what it said is kept for
\* the next call; or else the handler goes on to the parser, or fails.
LEMMA SslStopsInv ==
    ASSUME Inv, pc = "ssl", NEW r \in {EAGAIN, DONE, ERROR}, SslStops(r),
           UNCHANGED <<tls, sent, closed, edge, pending_eof, end>>
    PROVE  Inv'
<1> USE DEF locals
<1>1. /\ tls /\ outcome = "reading" /\ p = last + bytes /\ size = end - p /\ size > 0
      /\ Delivered = last + bytes /\ Delivered <= taken
  BY DEF Inv, Cursor, Delivered
<1>2. /\ r \in SslNothing /\ ssl_last' = r /\ UNCHANGED <<buf, taken, p, size, bytes>>
      /\ borrowed' = (borrowed \/ send = "blocked")
      /\ send' = (IF send = "blocked" THEN send ELSE "no")
      /\ \/ bytes > 0 /\ pc' = "loop" /\ last' = last + bytes /\ outcome' = outcome
         \/ ~(bytes > 0) /\ pc' = "idle" /\ outcome' = "failed" /\ last' = last
         \/ ~(bytes > 0) /\ pc' = "parse" /\ outcome' = outcome /\ last' = last
  BY DEF SslStops, SslEnds, Fails, Leave
<1>3. Delivered' = Delivered
  BY <1>1, <1>2, Numbers DEF Delivered, Inv
<1>4. Drained' <=> Drained
  <2>1. RecordEnd' = RecordEnd
    BY <1>2 DEF RecordEnd
  <2>2. Decodable' = Decodable
    BY <1>2, <1>3, <2>1 DEF Decodable
  <2> QED BY <1>1, <1>3, <2>2 DEF Drained
<1>5. send # "blocked" => Drained
  BY <1>1, <1>2, DecodableRange DEF SslNothing, Drained, Inv
<1>6. r \in {DONE, ERROR} => closed # "no" /\ send # "blocked"
  BY <1>2 DEF SslNothing, DONE, ERROR, EAGAIN
<1>7. TypeOK'
  <2>1. last' \in 0..taken' /\ last' <= end'
    BY <1>1, <1>2, Numbers DEF Inv
  <2>2. /\ borrowed' \in BOOLEAN /\ send' \in {"no", "blocked", "free", "reported"}
        /\ ssl_last' \in {OK, ERROR, DONE, EAGAIN}
    BY <1>2 DEF Inv, TypeOK
  <2> QED BY <1>1, <1>2, <2>1, <2>2 DEF Inv, TypeOK
<1>8. Filled' /\ Cursor'
  BY <1>1, <1>2, <1>3 DEF Inv, Filled, Cursor
<1>9. EndIsEnd' /\ EofSeen'
  BY <1>1, <1>2, <1>4, <1>5, <1>6 DEF Inv, EndIsEnd, EofSeen
<1>10. Left' /\ Complete'
  BY <1>1, <1>2, <1>4, <1>5 DEF Left, Complete
<1> QED BY <1>7, <1>8, <1>9, <1>10 DEF Inv

\* The parser: a client whose page is complete, or whose connection has ended, ends.
LEMMA ParseInv ==
    ASSUME Inv, Parse
    PROVE  Inv'
<1> USE DEF locals, network
<1>1. /\ pc = "parse" /\ pc' = "idle" /\ outcome = "reading"
      /\ outcome' = (IF Finished THEN "done" ELSE "reading")
      /\ UNCHANGED <<tls, sent, closed, taken, edge, send, borrowed, pending_eof, buf, last, end,
                     ssl_last, p, size, bytes>>
  BY DEF Parse, Inv, Cursor
<1>2. Delivered' = Delivered /\ (Drained' <=> Drained) /\ Delivered = last
  BY <1>1, SameDrainedOutside, Numbers DEF Delivered, Inv
<1>3. last = Total => Drained
  BY <1>1, <1>2, DecodableRange, Numbers DEF Drained, Inv
<1>4. TypeOK' /\ Filled' /\ Cursor'
  BY <1>1, <1>2 DEF Inv, TypeOK, Filled, Cursor
<1>5. EndIsEnd' /\ Left'
  BY <1>1, <1>2 DEF Inv, EndIsEnd, Left
<1>6. EofSeen' /\ Complete'
  BY <1>1, <1>2, <1>3 DEF Inv, EofSeen, Complete, Finished
<1> QED BY <1>4, <1>5, <1>6 DEF Inv

-----------------------------------------------------------------------------
(* The theorems *)

\* The connection starts with nothing sent and an empty buffer.
LEMMA InitInv == Init => Inv
<1> SUFFICES ASSUME Init PROVE Inv
  OBVIOUS
<1> USE DEF Init
<1>1. Delivered = 0
  BY DEF Delivered
<1>2. TypeOK
  <2>1. /\ sent \in 0..Total /\ taken \in 0..sent /\ last \in 0..taken /\ end \in Nat \ {0}
        /\ last <= end /\ p \in Nat /\ size \in Nat /\ bytes \in Nat /\ p + size <= end
    BY TransportAssumption
  <2>2. /\ tls \in BOOLEAN /\ edge \in BOOLEAN /\ borrowed \in BOOLEAN /\ pending_eof \in BOOLEAN
        /\ ssl_last \in {OK, ERROR, DONE, EAGAIN}
    OBVIOUS
  <2> QED BY <2>1, <2>2 DEF TypeOK
<1>3. Filled
  BY <1>1 DEF Filled
<1>4. Cursor /\ EofSeen /\ Complete
  BY DEF Cursor, EofSeen, Complete
<1>5. Drained
  BY <1>1, <1>2, <1>4, DecodableRange DEF Drained
<1>6. EndIsEnd /\ Left
  BY <1>5 DEF EndIsEnd, Left, OK, DONE, ERROR
<1> QED BY <1>2, <1>3, <1>4, <1>6 DEF Inv

\* Every step keeps the invariant.
LEMMA NextInv == Inv /\ [Next]_vars => Inv'
<1> SUFFICES ASSUME Inv, [Next]_vars PROVE Inv'
  OBVIOUS
<1>1. CASE \E n \in 1..Total : Arrive(n)
  BY <1>1, ArriveInv
<1>2. CASE \E how \in {"notify", "fin", "rst"} : Close(how)
  BY <1>2, CloseInv
<1>3. CASE Renegotiate \/ Writable
  BY <1>3, SendInv
<1>4. CASE Report \/ ReportOut
  BY <1>4, ReportInv
<1>5. CASE unix_recv
  BY <1>5, UnixRecvInv
<1>6. CASE SslBegin
  BY <1>6, SslBeginInv
<1>7. CASE ssl_recv
  <2>1. pc = "ssl" /\ UNCHANGED <<tls, sent, closed, edge, pending_eof, end>>
    BY <1>7 DEF ssl_recv, network
  <2>2. CASE SslData
    BY <2>1, <2>2, SslDataInv
  <2>3. CASE \E r \in {EAGAIN, DONE, ERROR} : SslStops(r)
    BY <2>1, <2>3, SslStopsInv
  <2> QED BY <1>7, <2>2, <2>3 DEF ssl_recv
<1>8. CASE Parse
  BY <1>8, ParseInv
<1>9. CASE UNCHANGED vars
  <2>1. UNCHANGED <<tls, sent, closed, taken, edge, send, borrowed, pending_eof, pc, outcome, buf, last,
                    end, ssl_last, p, size, bytes>>
    BY <1>9 DEF vars
  <2>2. Delivered' = Delivered /\ (Drained' <=> Drained)
    BY <2>1, SameDrained
  <2>3. TypeOK' /\ Filled' /\ Cursor'
    BY <2>1, <2>2 DEF Inv, TypeOK, Filled, Cursor
  <2>4. EndIsEnd' /\ Left' /\ EofSeen' /\ Complete'
    BY <2>1, <2>2 DEF Inv, EndIsEnd, Left, EofSeen, Complete
  <2> QED BY <2>3, <2>4 DEF Inv
<1> QED BY <1>1, <1>2, <1>3, <1>4, <1>5, <1>6, <1>7, <1>8, <1>9 DEF Next, HandlerStep

\* The invariant holds in every state of the connection.
LEMMA InvHolds == Spec => []Inv
BY InitInv, NextInv, PTL DEF Spec

\* For every length of the response, of the records and of the buffer, and every way the network, the
\* records and the room in the buffer cut it: the buffer holds the response's first bytes, in order and
\* without a gap, although ssl_recv writes behind b->last in several SSL_reads and resize_temp_buf moves
\* the end.
THEOREM BytesInOrder == Spec => []InOrder
<1>1. Inv => InOrder
  <2> SUFFICES ASSUME Inv PROVE InOrder
    OBVIOUS
  <2>1. last <= Delivered /\ Delivered \in Nat /\ last \in Nat
    BY Numbers, DecodableRange DEF Delivered, Inv
  <2>2. \A k \in 0..(last - 1) : k \in 0..(Delivered - 1)
    BY <2>1
  <2> QED BY <2>2 DEF Inv, InOrder, Filled
<1> QED BY <1>1, InvHolds, PTL

\* The receive loop leaves nothing behind an edge that was taken: what can still be read when the handler
\* returns will be reported, and a FIN or RST that comes at any point of the loop will be too.
THEOREM EdgesSuffice == Spec => []NothingStranded
<1>1. Inv => NothingStranded
  <2> SUFFICES ASSUME Inv, pc = "idle", outcome = "reading"
               PROVE  /\ Readable => edge \/ (borrowed /\ send \in {"blocked", "free"})
                      /\ closed \in {"fin", "rst"} => edge
    BY DEF NothingStranded
  <2>1. Delivered = last
    BY Numbers DEF Delivered, Inv
  <2>2. Readable => ~Drained
    BY <2>1, Numbers, DecodableRange DEF Readable, Drained, Inv
  <2>3. Readable => edge \/ (borrowed /\ send \in {"blocked", "free"})
    BY <2>2 DEF Inv, Left
  <2> QED BY <2>3 DEF Inv, EofSeen
<1> QED BY <1>1, InvHolds, PTL

\* A client that ends with the connection has read every byte or whole record there was, unless the SSL
\* library was waiting to write.
THEOREM EndKeepsBytes == Spec => []NoneLostAtEnd
<1>1. Inv => NoneLostAtEnd
  <2> SUFFICES ASSUME Inv, outcome = "done", send = "no" PROVE ~Readable
    BY DEF NoneLostAtEnd
  <2>1. pc = "idle" /\ Drained
    BY DEF Inv, Cursor, Complete
  <2>2. Delivered = last
    BY <2>1, Numbers DEF Delivered, Inv
  <2> QED BY <2>1, <2>2, Numbers, DecodableRange DEF Readable, Drained, Inv
<1> QED BY <1>1, InvHolds, PTL
===============================================================================
