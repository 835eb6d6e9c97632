----------------------------- MODULE HandlerProofs -----------------------------
(* Proofs about the event handlers of EventLoop: what they find in the slot of their connection *)
(* and what they leave there, and that the whole loop implements FetchService, for every size   *)
(* of the pool and every set of clients.                                                        *)
EXTENDS EventLoopProofs, EventLoopFetch

-----------------------------------------------------------------------------
(* The inductive invariant, on top of Inv *)

\* The kernel's registration is what the two active flags say.
Matches(x) == x.interest = (IF x.read.active THEN {"IN"} ELSE {}) \cup (IF x.write.active THEN {"OUT"} ELSE {})

\* The events of an open connection.  Its read handler is http_read_event_process exactly from the end
\* of the request on: from then on the read timer is set and the write timer is not, the handshake is
\* over, and only then may ssl_handle_recv have borrowed the write handler, which is then
\* http_write_event_process.
Stage(x) ==
    /\ x.read.active => x.read.handler \in {"http_read_event_process", "ssl_handshake_handler"}
    /\ x.write.handler \in {"http_write_event_process", "ssl_handshake_handler", "ssl_write_handler"}
    /\ x.saved \in {"NULL", "http_write_event_process"}
    /\ x.saved # "NULL" <=> x.write.handler = "ssl_write_handler"
    /\ x.read.timer_set <=> x.read.handler = "http_read_event_process"
    /\ x.read.handler = "http_read_event_process" =>
          ~x.write.timer_set /\ x.write.handler # "ssl_handshake_handler"
    /\ x.read.handler # "http_read_event_process" => x.saved = "NULL"

\* Whatever may send the request, or has sent it, finds the TLS session, or will when it is restored.
Secured(x, sent) ==
    sent \/ x.write.handler = "http_write_event_process" \/ x.saved = "http_write_event_process"
       => x.ssl = "handshaked"

SlotOK(x, u, sent) == Matches(x) /\ Stage(x) /\ (u \in Https => Secured(x, sent))

Timed(x) == x.read.timer_set \/ x.write.timer_set

Stages == \A c \in Conn \ {dns_conn} : fd[c] => SlotOK(ev[c], data[c], client[data[c]].sent)

\* An EPOLLOUT that is the only thing to wake a connection up finds its write event active.
Awake ==
    \A c \in Conn \ {dns_conn} : fd[c] =>
       Timed(ev[c]) \/ ((edge[c] \/ "OUT" \in revents[c]) /\ ev[c].write.active)

HandlerInv == Inv /\ Stages /\ Awake /\ Matches(ev[dns_conn])
-----------------------------------------------------------------------------
(* What the operators do to a slot's events *)

\* event_add on the write event: it becomes active, the rest is as it was, the registration matches.
LEMMA AddWrite ==
    ASSUME NEW x \in EventState
    PROVE  LET y == event_add(x, "write")
           IN  /\ y \in EventState /\ Matches(y)
               /\ y.read = x.read /\ y.write = [x.write EXCEPT !.active = TRUE]
               /\ y.ssl = x.ssl /\ y.saved = x.saved
<1> DEFINE x1 == SetActive(x, "write", TRUE)
           y == event_add(x, "write")
<1>1. y \in EventState
  BY EventAddType
<1>2. /\ x1 \in EventState /\ x1.read = x.read /\ x1.write = [x.write EXCEPT !.active = TRUE]
      /\ x1.ssl = x.ssl /\ x1.saved = x.saved
  BY DEF SetActive, EventState, Event
<1>3. y = [x1 EXCEPT !.interest = {"OUT"} \cup (IF x.read.active THEN {"IN"} ELSE {})]
  BY DEF event_add, Flag, Other, OtherFlag
<1> HIDE DEF x1, y
<1>4. /\ y.read = x1.read /\ y.write = x1.write /\ y.ssl = x1.ssl /\ y.saved = x1.saved
      /\ y.interest = {"OUT"} \cup (IF x.read.active THEN {"IN"} ELSE {})
  BY <1>2, <1>3 DEF EventState
<1>5. y.read.active = x.read.active /\ y.write.active
  BY <1>2, <1>4 DEF EventState, Event
<1> QED BY <1>1, <1>2, <1>4, <1>5 DEF Matches, y

\* The same of the read event.
LEMMA AddRead ==
    ASSUME NEW x \in EventState
    PROVE  LET y == event_add(x, "read")
           IN  /\ y \in EventState /\ Matches(y)
               /\ y.write = x.write /\ y.read = [x.read EXCEPT !.active = TRUE]
               /\ y.ssl = x.ssl /\ y.saved = x.saved
<1> DEFINE x1 == SetActive(x, "read", TRUE)
           y == event_add(x, "read")
<1>1. y \in EventState
  BY EventAddType
<1>2. /\ x1 \in EventState /\ x1.write = x.write /\ x1.read = [x.read EXCEPT !.active = TRUE]
      /\ x1.ssl = x.ssl /\ x1.saved = x.saved
  BY DEF SetActive, EventState, Event
<1>3. y = [x1 EXCEPT !.interest = {"IN"} \cup (IF x.write.active THEN {"OUT"} ELSE {})]
  BY DEF event_add, Flag, Other, OtherFlag
<1> HIDE DEF x1, y
<1>4. /\ y.read = x1.read /\ y.write = x1.write /\ y.ssl = x1.ssl /\ y.saved = x1.saved
      /\ y.interest = {"IN"} \cup (IF x.write.active THEN {"OUT"} ELSE {})
  BY <1>2, <1>3 DEF EventState
<1>5. y.write.active = x.write.active /\ y.read.active
  BY <1>2, <1>4 DEF EventState, Event
<1> QED BY <1>1, <1>2, <1>4, <1>5 DEF Matches, y

\* event_del on the write event, at the end of the request.
LEMMA DelWrite ==
    ASSUME NEW x \in EventState
    PROVE  LET y == event_del(x, "write")
           IN  /\ y \in EventState /\ Matches(y)
               /\ y.read = x.read /\ y.write = [x.write EXCEPT !.active = FALSE]
               /\ y.ssl = x.ssl /\ y.saved = x.saved
<1> DEFINE x1 == SetActive(x, "write", FALSE)
           y == event_del(x, "write")
<1>1. y \in EventState
  BY EventDelType
<1>2. /\ x1 \in EventState /\ x1.read = x.read /\ x1.write = [x.write EXCEPT !.active = FALSE]
      /\ x1.ssl = x.ssl /\ x1.saved = x.saved
  BY DEF SetActive, EventState, Event
<1>3. y = [x1 EXCEPT !.interest = IF x.read.active THEN {"IN"} ELSE {}]
  BY DEF event_del, Other, OtherFlag
<1> HIDE DEF x1, y
<1>4. /\ y.read = x1.read /\ y.write = x1.write /\ y.ssl = x1.ssl /\ y.saved = x1.saved
      /\ y.interest = IF x.read.active THEN {"IN"} ELSE {}
  BY <1>2, <1>3 DEF EventState
<1>5. y.read.active = x.read.active /\ ~y.write.active
  BY <1>2, <1>4 DEF EventState, Event
<1> QED BY <1>1, <1>2, <1>4, <1>5 DEF Matches, y

\* A slot with the same flags and handlers is as good.
LEMMA SameSlot ==
    ASSUME NEW x \in EventState, NEW y \in EventState, NEW u, NEW sent,
           y.interest = x.interest, y.ssl = x.ssl, y.saved = x.saved,
           y.read.active = x.read.active, y.write.active = x.write.active,
           y.read.handler = x.read.handler, y.write.handler = x.write.handler,
           y.read.timer_set = x.read.timer_set, y.write.timer_set = x.write.timer_set
    PROVE  /\ SlotOK(x, u, sent) => SlotOK(y, u, sent)
           /\ Timed(y) <=> Timed(x)
BY DEF SlotOK, Matches, Stage, Secured, Timed

\* http_conn registers the write event, with the handler the schema asks for; nothing is sent yet.
LEMMA ConnectingSlot ==
    ASSUME NEW u, NEW b \in BOOLEAN
    PROVE  LET y == [Connecting(u) EXCEPT !.write.timer_set = b]
           IN  /\ y \in EventState /\ SlotOK(y, u, FALSE)
               /\ y.write.timer_set = b /\ y.write.active
<1> DEFINE m == [Memset EXCEPT !.write.handler = FirstHandler(u)]
           x == Connecting(u)
           y == [x EXCEPT !.write.timer_set = b]
<1>1. /\ m \in EventState /\ m.read = Cleared /\ m.write = [Cleared EXCEPT !.handler = FirstHandler(u)]
      /\ m.saved = "NULL" /\ m.ssl = "none"
  BY DEF Memset, Cleared, EventState, Event, Handler, FirstHandler
<1> HIDE DEF m
<1>2. /\ x \in EventState /\ Matches(x) /\ x.read = m.read /\ x.write = [m.write EXCEPT !.active = TRUE]
      /\ x.ssl = m.ssl /\ x.saved = m.saved
  BY <1>1, AddWrite DEF Connecting, m
<1> HIDE DEF x
<1>3. /\ y \in EventState /\ y.read = x.read /\ y.interest = x.interest /\ y.ssl = x.ssl
      /\ y.saved = x.saved /\ y.write.timer_set = b /\ y.write.handler = x.write.handler
      /\ y.write.active = x.write.active
  BY <1>2 DEF EventState, Event
<1> HIDE DEF y
<1>4. /\ x.read.active = FALSE /\ x.read.timer_set = FALSE /\ x.read.handler = "NULL"
      /\ x.write.active = TRUE /\ x.write.handler = FirstHandler(u)
  BY <1>1, <1>2 DEF Cleared
<1>5. Matches(y)
  BY <1>2, <1>3 DEF Matches
<1>6. Stage(y) /\ (u \in Https => Secured(y, FALSE))
  BY <1>1, <1>2, <1>3, <1>4 DEF Stage, Secured, FirstHandler
<1> QED BY <1>3, <1>4, <1>5, <1>6 DEF SlotOK, y, x

\* Bytes arrive while reading: the timer is on already, and a borrowed write handler is given back.
LEMMA ReceivedSlot ==
    ASSUME NEW x \in EventState, NEW u, NEW sent, SlotOK(x, u, sent),
           x.read.handler = "http_read_event_process"
    PROVE  LET y == Received(x)
           IN  /\ y \in EventState /\ SlotOK(y, u, sent) /\ y.read.handler = x.read.handler
<1> DEFINE y == Received(x)
<1>1. y \in EventState
  BY ReceivedType
<1>2. /\ y.read = [x.read EXCEPT !.timer_set = TRUE] /\ y.ssl = x.ssl /\ y.saved = "NULL"
      /\ y.write = [x.write EXCEPT !.handler = IF x.saved # "NULL" THEN x.saved ELSE x.write.handler]
      /\ y.interest = x.interest
  BY DEF Received, EventState
<1> HIDE DEF y
<1>3. /\ y.read.active = x.read.active /\ y.read.timer_set = TRUE /\ y.read.handler = x.read.handler
      /\ y.write.active = x.write.active /\ y.write.timer_set = x.write.timer_set
      /\ y.write.handler = IF x.saved # "NULL" THEN x.saved ELSE x.write.handler
  BY <1>2 DEF EventState, Event
<1>4. SlotOK(y, u, sent)
  BY <1>2, <1>3 DEF SlotOK, Matches, Stage, Secured
<1> QED BY <1>1, <1>3, <1>4 DEF y

\* SSL_read wants to write while reading: the write event is registered and its handler borrowed.
LEMMA WantWriteSlot ==
    ASSUME NEW x \in EventState, NEW u, NEW sent, SlotOK(x, u, sent),
           x.read.handler = "http_read_event_process"
    PROVE  LET y == WantWrite(x)
           IN  /\ y \in EventState /\ SlotOK(y, u, sent) /\ y.read.handler = x.read.handler
<1> DEFINE y == IF x.write.active THEN x ELSE event_add(x, "write")
           z == [y EXCEPT !.saved = y.write.handler, !.write.handler = "ssl_write_handler"]
<1>1. /\ y \in EventState /\ Matches(y) /\ y.read = x.read /\ y.ssl = x.ssl /\ y.saved = x.saved
      /\ y.write.handler = x.write.handler /\ y.write.timer_set = x.write.timer_set
  <2>1. CASE x.write.active
    BY <2>1 DEF SlotOK
  <2>2. CASE ~x.write.active
    <3>1. y = event_add(x, "write")
      BY <2>2
    <3> HIDE DEF y
    <3>2. /\ y \in EventState /\ Matches(y) /\ y.read = x.read /\ y.ssl = x.ssl /\ y.saved = x.saved
          /\ y.write = [x.write EXCEPT !.active = TRUE]
      BY <3>1, AddWrite
    <3> QED BY <3>2 DEF EventState, Event
  <2> QED BY <2>1, <2>2
<1> HIDE DEF y
<1>2. SlotOK(y, u, sent)
  BY <1>1 DEF SlotOK, Stage, Secured
<1>3. /\ z \in EventState /\ z.read = y.read /\ z.interest = y.interest /\ z.ssl = y.ssl
      /\ z.saved = y.write.handler /\ z.write.handler = "ssl_write_handler"
      /\ z.write.active = y.write.active /\ z.write.timer_set = y.write.timer_set
  BY <1>1 DEF EventState, Event, Handler
<1> HIDE DEF z
<1>4. CASE y.saved # "NULL"
  <2>1. WantWrite(x) = y
    BY <1>4 DEF WantWrite, y
  <2> QED BY <1>1, <1>2, <2>1
<1>5. CASE y.saved = "NULL"
  <2>1. WantWrite(x) = z
    BY <1>5 DEF WantWrite, y, z
  <2>2. SlotOK(z, u, sent)
    BY <1>1, <1>2, <1>3, <1>5 DEF SlotOK, Matches, Stage, Secured
  <2> QED BY <1>1, <1>3, <2>1, <2>2
<1> QED BY <1>4, <1>5
\* ssl_create registers both events for the handshake; nothing was sent before it.
LEMMA SslCreateSlot ==
    ASSUME NEW x \in EventState, NEW u, NEW sent, SlotOK(x, u, sent), x.ssl = "none",
           x.read.handler # "http_read_event_process"
    PROVE  LET y == ssl_create(x)
           IN  /\ y \in EventState /\ SlotOK(y, u, sent) /\ y.read.handler = "ssl_handshake_handler"
<1> DEFINE x1 == [x EXCEPT !.read.handler = "ssl_handshake_handler",
                           !.write.handler = "ssl_handshake_handler", !.ssl = "created"]
           x2 == IF x1.write.active THEN x1 ELSE event_add(x1, "write")
           y  == IF x2.read.active THEN x2 ELSE event_add(x2, "read")
<1>1. /\ x1 \in EventState /\ x1.interest = x.interest /\ x1.saved = x.saved /\ x1.ssl = "created"
      /\ x1.read = [x.read EXCEPT !.handler = "ssl_handshake_handler"]
      /\ x1.write = [x.write EXCEPT !.handler = "ssl_handshake_handler"]
  BY DEF EventState, Event, Handler
<1> HIDE DEF x1
<1>2. /\ x1.read.active = x.read.active /\ x1.read.timer_set = x.read.timer_set
      /\ x1.write.active = x.write.active /\ x1.write.timer_set = x.write.timer_set
      /\ x1.read.handler = "ssl_handshake_handler" /\ x1.write.handler = "ssl_handshake_handler"
  BY <1>1 DEF EventState, Event
<1>3. SlotOK(x1, u, sent)
  BY <1>1, <1>2 DEF SlotOK, Matches, Stage, Secured
<1>4. /\ x2 \in EventState /\ Matches(x2) /\ x2.read = x1.read /\ x2.ssl = x1.ssl /\ x2.saved = x1.saved
      /\ x2.write.handler = x1.write.handler /\ x2.write.timer_set = x1.write.timer_set
  <2>1. CASE x1.write.active
    BY <1>1, <1>3, <2>1 DEF SlotOK
  <2>2. CASE ~x1.write.active
    <3>1. x2 = event_add(x1, "write")
      BY <2>2
    <3> HIDE DEF x2
    <3>2. /\ x2 \in EventState /\ Matches(x2) /\ x2.read = x1.read /\ x2.ssl = x1.ssl
          /\ x2.saved = x1.saved /\ x2.write = [x1.write EXCEPT !.active = TRUE]
      BY <1>1, <3>1, AddWrite
    <3> QED BY <1>1, <3>2 DEF EventState, Event
  <2> QED BY <2>1, <2>2
<1> HIDE DEF x2
<1>5. /\ y \in EventState /\ Matches(y) /\ y.write = x2.write /\ y.ssl = x2.ssl /\ y.saved = x2.saved
      /\ y.read.handler = x2.read.handler /\ y.read.timer_set = x2.read.timer_set
  <2>1. CASE x2.read.active
    BY <1>4, <2>1
  <2>2. CASE ~x2.read.active
    <3>1. y = event_add(x2, "read")
      BY <2>2
    <3> HIDE DEF y
    <3>2. /\ y \in EventState /\ Matches(y) /\ y.write = x2.write /\ y.ssl = x2.ssl
          /\ y.saved = x2.saved /\ y.read = [x2.read EXCEPT !.active = TRUE]
      BY <1>4, <3>1, AddRead
    <3> QED BY <1>4, <3>2 DEF EventState, Event
  <2> QED BY <2>1, <2>2
<1>6. ssl_create(x) = y
  BY DEF ssl_create, y, x2, x1
<1> HIDE DEF y
<1>7. SlotOK(y, u, sent)
  BY <1>2, <1>3, <1>4, <1>5 DEF SlotOK, Stage, Secured
<1> QED BY <1>2, <1>4, <1>5, <1>6, <1>7

-----------------------------------------------------------------------------
(* What the handlers leave in the slot *)

\* The handler keeps the connection, with a timer, a slot fit for the next event and the client moved on
KeptWell(c) ==
    \E y \in EventState, cl \in ClientState :
       /\ Keep(c, y, cl) /\ SlotOK(y, data[c], cl.sent) /\ Timed(y)

\* The parser does not touch what was sent.
LEMMA ParseSent ==
    ASSUME NEW cl \in ClientState, NEW cl1 \in ParseOutcomes(cl)
    PROVE  cl1 \in ClientState /\ cl1.sent = cl.sent
<1>1. \/ cl1 = cl
      \/ cl1 = [cl EXCEPT !.status = HTTP_HEAD_DONE, !.head = TRUE]
      \/ cl1 = [cl EXCEPT !.status = HTTP_HTML_DONE, !.head = TRUE]
      \/ cl1 = [cl EXCEPT !.status = HTTP_HTML_DONE]
  BY Zenon DEF ParseOutcomes
<1>2. cl1.sent = cl.sent
  BY <1>1 DEF ClientState
<1> QED BY <1>2, ParseType

\* http_read_event_process: the read timer stays set while the connection is kept.
LEMMA HttpReadWell ==
    ASSUME NEW c, NEW x \in EventState, Served(c), SlotOK(x, data[c], client[data[c]].sent),
           x.read.handler = "http_read_event_process", http_read_event_process(c, x)
    PROVE  KeptWell(c) \/ GivenBack(c)
<1>1. CASE Fail(c, x)
  BY <1>1, RetrieveGivesBack DEF Fail
<1>2. CASE ~Fail(c, x)
  <2> DEFINE cl0 == client[data[c]]
             u   == data[c]
  <2>1. PICK bytes \in BOOLEAN, wantWrite \in BOOLEAN :
          LET x1 == IF bytes THEN Received(x) ELSE x
              y  == IF wantWrite THEN WantWrite(x1) ELSE x1
          IN  \E cl \in IF bytes THEN ParseOutcomes(cl0) ELSE {cl0} :
                 IF cl.status = HTTP_HTML_DONE \/ y.read.pending_eof
                   THEN Retrieve(c, y, cl.status)
                   ELSE Keep(c, y, cl)
    BY <1>2, ZenonT(60) DEF http_read_event_process
  <2> DEFINE x1 == IF bytes THEN Received(x) ELSE x
             y  == IF wantWrite THEN WantWrite(x1) ELSE x1
  <2>2. x1 \in EventState /\ SlotOK(x1, u, cl0.sent) /\ x1.read.handler = "http_read_event_process"
    BY ReceivedSlot
  <2> HIDE DEF x1
  <2>3. y \in EventState /\ SlotOK(y, u, cl0.sent) /\ y.read.handler = "http_read_event_process"
    BY <2>2, WantWriteSlot
  <2>4. PICK cl \in IF bytes THEN ParseOutcomes(cl0) ELSE {cl0} :
          IF cl.status = HTTP_HTML_DONE \/ y.read.pending_eof
            THEN Retrieve(c, y, cl.status)
            ELSE Keep(c, y, cl)
    BY <2>1 DEF x1
  <2>5. cl \in ClientState /\ cl.sent = cl0.sent
    BY <2>4, ParseSent DEF Served
  <2> HIDE DEF y
  <2>6. Timed(y)
    BY <2>3 DEF SlotOK, Stage, Timed
  <2>7. CASE Retrieve(c, y, cl.status)
    BY <2>3, <2>7, RetrieveGivesBack
  <2>8. CASE Keep(c, y, cl)
    BY <2>3, <2>5, <2>6, <2>8 DEF KeptWell
  <2> QED BY <2>4, <2>7, <2>8
<1> QED BY <1>1, <1>2

\* http_write_event_process: the request is out, reading starts with a timer.
LEMMA HttpWriteWell ==
    ASSUME NEW c, NEW x \in EventState, Served(c), SlotOK(x, data[c], client[data[c]].sent),
           x.write.handler = "http_write_event_process", http_write_event_process(c, x)
    PROVE  KeptWell(c) \/ GivenBack(c)
<1>1. CASE Fail(c, x)
  BY <1>1, RetrieveGivesBack DEF Fail
<1>2. CASE TransEnd(c, x)
  <2> DEFINE u  == data[c]
             x0 == [x EXCEPT !.write.timer_set = FALSE]
             x1 == IF x.write.active THEN event_del(x0, "write") ELSE x0
             x2 == [x1 EXCEPT !.read.handler = "http_read_event_process"]
             x3 == IF x2.read.active THEN x2 ELSE event_add(x2, "read")
             x4 == [x3 EXCEPT !.read.timer_set = TRUE]
             cl == [client[data[c]] EXCEPT !.status = HTTP_REQ_DONE, !.sent = TRUE]
  <2>1. Keep(c, x4, cl)
    BY <1>2 DEF TransEnd
  <2>2. /\ x0 \in EventState /\ x0.read = x.read /\ x0.ssl = x.ssl /\ x0.saved = x.saved
        /\ x0.interest = x.interest /\ x0.write.active = x.write.active
        /\ x0.write.handler = x.write.handler /\ x0.write.timer_set = FALSE
    BY DEF EventState, Event
  <2> HIDE DEF x0
  <2>3. /\ x1 \in EventState /\ Matches(x1) /\ x1.read = x.read /\ x1.ssl = x.ssl /\ x1.saved = x.saved
        /\ x1.write.handler = x.write.handler /\ x1.write.timer_set = FALSE
    <3>1. CASE x.write.active
      <4>1. x1 = event_del(x0, "write")
        BY <3>1
      <4> HIDE DEF x1
      <4>2. /\ x1 \in EventState /\ Matches(x1) /\ x1.read = x0.read /\ x1.ssl = x0.ssl
            /\ x1.saved = x0.saved /\ x1.write = [x0.write EXCEPT !.active = FALSE]
        BY <2>2, <4>1, DelWrite
      <4> QED BY <2>2, <4>2 DEF EventState, Event
    <3>2. CASE ~x.write.active
      <4>1. x1 = x0
        BY <3>2
      <4> HIDE DEF x1
      <4> QED BY <2>2, <4>1 DEF SlotOK, Matches
    <3> QED BY <3>1, <3>2
  <2> HIDE DEF x1
  <2>4. /\ x2 \in EventState /\ Matches(x2) /\ x2.write = x1.write /\ x2.ssl = x1.ssl
        /\ x2.saved = x1.saved /\ x2.read.handler = "http_read_event_process"
    <3>1. /\ x2 \in EventState /\ x2.write = x1.write /\ x2.ssl = x1.ssl /\ x2.interest = x1.interest
          /\ x2.saved = x1.saved /\ x2.read.handler = "http_read_event_process"
          /\ x2.read.active = x1.read.active
      BY <2>3 DEF EventState, Event, Handler
    <3> HIDE DEF x2
    <3> QED BY <2>3, <3>1 DEF Matches
  <2> HIDE DEF x2
  <2>5. /\ x3 \in EventState /\ Matches(x3) /\ x3.write = x2.write /\ x3.ssl = x2.ssl
        /\ x3.saved = x2.saved /\ x3.read.handler = x2.read.handler
    <3>1. CASE x2.read.active
      BY <2>4, <3>1
    <3>2. CASE ~x2.read.active
      <4>1. x3 = event_add(x2, "read")
        BY <3>2
      <4> HIDE DEF x3
      <4>2. /\ x3 \in EventState /\ Matches(x3) /\ x3.write = x2.write /\ x3.ssl = x2.ssl
            /\ x3.saved = x2.saved /\ x3.read = [x2.read EXCEPT !.active = TRUE]
        BY <2>4, <4>1, AddRead
      <4> QED BY <2>4, <4>2 DEF EventState, Event
    <3> QED BY <3>1, <3>2
  <2> HIDE DEF x3
  <2>6. /\ x4 \in EventState /\ x4.write = x3.write /\ x4.ssl = x3.ssl /\ x4.saved = x3.saved
        /\ x4.interest = x3.interest /\ x4.read.active = x3.read.active
        /\ x4.read.handler = x3.read.handler /\ x4.read.timer_set = TRUE
    BY <2>5 DEF EventState, Event
  <2>7. cl \in ClientState /\ cl.sent
    <3>1. HTTP_REQ_DONE \in 0..3
      BY DEF HTTP_REQ_DONE
    <3>2. cl \in ClientState
      BY <3>1, StatusType DEF Served
    <3> QED BY <3>2 DEF ClientState, Served
  <2> HIDE DEF x4, cl
  <2>8. Matches(x4) /\ Timed(x4)
    BY <2>5, <2>6 DEF Matches, Timed
  <2>9. Stage(x4)
    BY <2>3, <2>4, <2>5, <2>6 DEF SlotOK, Stage
  <2>10. u \in Https => Secured(x4, cl.sent)
    BY <2>3, <2>4, <2>5, <2>6 DEF SlotOK, Secured
  <2> QED BY <2>1, <2>6, <2>7, <2>8, <2>9, <2>10 DEF KeptWell, SlotOK
<1> QED BY <1>1, <1>2 DEF http_write_event_process

\* ssl_handshake_handler: the write timer is set until the handshake is over and the request is out.
LEMMA HandshakeWell ==
    ASSUME NEW c, NEW x \in EventState, NEW timedout, Served(c),
           SlotOK(x, data[c], client[data[c]].sent), x.read.handler # "http_read_event_process",
           ssl_handshake_handler(c, x, timedout)
    PROVE  KeptWell(c) \/ GivenBack(c)
<1>1. CASE Fail(c, x)
  BY <1>1, RetrieveGivesBack DEF Fail
<1>2. CASE ~Fail(c, x)
  <2> DEFINE u == data[c]
             cl == client[data[c]]
             y == IF x.ssl = "none" THEN ssl_create(x) ELSE x
             y1 == [y EXCEPT !.ssl = "handshaked", !.write.timer_set = TRUE,
                             !.write.handler = "http_write_event_process"]
             y2 == [y EXCEPT !.write.timer_set = TRUE]
  <2>1. /\ y \in EventState /\ SlotOK(y, u, cl.sent) /\ y.read.handler # "http_read_event_process"
    BY SslCreateSlot
  <2>2. Keep(c, y1, cl) \/ Keep(c, y2, cl)
    BY <1>2 DEF ssl_handshake_handler
  <2>3. cl \in ClientState
    BY DEF Served
  <2> HIDE DEF y
  <2>4. /\ y1 \in EventState /\ y1.read = y.read /\ y1.interest = y.interest /\ y1.saved = y.saved
        /\ y1.ssl = "handshaked" /\ y1.write.timer_set = TRUE /\ y1.write.active = y.write.active
        /\ y1.write.handler = "http_write_event_process"
    BY <2>1 DEF EventState, Event, Handler
  <2>5. /\ y2 \in EventState /\ y2.read = y.read /\ y2.interest = y.interest /\ y2.saved = y.saved
        /\ y2.ssl = y.ssl /\ y2.write.timer_set = TRUE /\ y2.write.active = y.write.active
        /\ y2.write.handler = y.write.handler
    BY <2>1 DEF EventState, Event, Handler
  <2> HIDE DEF y1, y2
  <2>6. SlotOK(y1, u, cl.sent) /\ Timed(y1)
    BY <2>1, <2>4 DEF SlotOK, Matches, Stage, Secured, Timed
  <2>7. SlotOK(y2, u, cl.sent) /\ Timed(y2)
    BY <2>1, <2>5 DEF SlotOK, Matches, Stage, Secured, Timed
  <2> QED BY <2>2, <2>3, <2>4, <2>5, <2>6, <2>7 DEF KeptWell
<1> QED BY <1>1, <1>2
\* Whichever handler an event has: it finds the slot fit for it, and leaves it fit for the next.
LEMMA HandlerWell ==
    ASSUME NEW c, NEW x \in EventState, Served(c), SlotOK(x, data[c], client[data[c]].sent),
           ReadHandler(c, x) \/ WriteHandler(c, x)
    PROVE  KeptWell(c) \/ GivenBack(c)
<1>1. CASE ReadHandler(c, x)
  <2>1. CASE x.read.handler = "http_read_event_process" /\ http_read_event_process(c, x)
    BY <2>1, HttpReadWell
  <2>2. CASE /\ x.read.handler = "ssl_handshake_handler"
             /\ ssl_handshake_handler(c, x, x.read.timedout)
    BY <2>2, HandshakeWell
  <2> QED BY <1>1, <2>1, <2>2 DEF ReadHandler
<1>2. CASE WriteHandler(c, x) /\ ~ReadHandler(c, x)
  <2>1. CASE x.write.handler = "http_write_event_process" /\ http_write_event_process(c, x)
    BY <2>1, HttpWriteWell
  <2>2. CASE /\ x.write.handler = "ssl_handshake_handler"
             /\ ssl_handshake_handler(c, x, x.write.timedout)
    <3>1. x.read.handler # "http_read_event_process"
      BY <2>2 DEF SlotOK, Stage
    <3> QED BY <2>2, <3>1, HandshakeWell
  <2> QED BY <1>2, <2>1, <2>2 DEF WriteHandler
<1> QED BY <1>1, <1>2

\* A handler called for its timer gives the connection back.
LEMMA ExpiredRead ==
    ASSUME NEW c, NEW x \in EventState, x.read.timedout,
           x.read.handler = "http_read_event_process", ReadHandler(c, x)
    PROVE  GivenBack(c)
<1>1. Fail(c, x)
  BY DEF ReadHandler, http_read_event_process
<1> QED BY <1>1, RetrieveGivesBack DEF Fail

\* The same of the write timer, which is set for the connect, the handshake and the request.
LEMMA ExpiredWrite ==
    ASSUME NEW c, NEW x \in EventState, x.write.timedout,
           x.write.handler \in {"http_write_event_process", "ssl_handshake_handler"}, WriteHandler(c, x)
    PROVE  GivenBack(c)
<1>1. Fail(c, x)
  BY DEF WriteHandler, http_write_event_process, ssl_handshake_handler
<1> QED BY <1>1, RetrieveGivesBack DEF Fail

-----------------------------------------------------------------------------
(* The invariant is inductive *)

\* What a handler leaves of the slots: its own is closed, or fit and timed; the others are untouched.
LEMMA HandlerSlots ==
    ASSUME Core, Stages, NEW c \in Conn \ {dns_conn}, fd[c], KeptWell(c) \/ GivenBack(c)
    PROVE  /\ Stages'
           /\ fd'[c] => Timed(ev'[c])
           /\ \A d \in Conn \ {c} : ev'[d] = ev[d] /\ fd'[d] = fd[d] /\ edge'[d] = edge[d]
<1> USE DEF poolVars
<1>1. /\ data[c] \in Client /\ client[data[c]].connection = c
      /\ ev \in [Conn -> EventState] /\ client \in [Client -> ClientState] /\ fd \in [Conn -> BOOLEAN]
      /\ data \in [Conn -> Conn \cup Client \cup {NULL}] /\ edge \in [Conn -> BOOLEAN]
  BY DEF Core, ClientConnection, StateType
<1>2. \A d \in Conn \ {dns_conn, c} : fd[d] => data[d] \in Client /\ data[d] # data[c]
  BY <1>1 DEF Core, ClientConnection
<1>3. CASE KeptWell(c)
  <2>1. PICK y \in EventState, cl \in ClientState :
           Keep(c, y, cl) /\ SlotOK(y, data[c], cl.sent) /\ Timed(y)
    BY <1>3 DEF KeptWell
  <2>2. /\ ev'[c] = y /\ client'[data[c]] = cl /\ fd' = fd /\ data' = data /\ edge' = edge
        /\ \A d \in Conn \ {c} : ev'[d] = ev[d]
        /\ \A u \in Client \ {data[c]} : client'[u] = client[u]
    BY <1>1, <2>1 DEF Keep
  <2>3. Stages'
    BY <1>2, <2>1, <2>2 DEF Stages
  <2> QED BY <2>1, <2>2, <2>3
<1>4. CASE GivenBack(c)
  <2>1. PICK y \in EventState, life \in {"parsed", "failed"} :
           close_connection(c, y) /\ client' = [client EXCEPT ![data[c]] = Blank(life)]
    BY <1>4 DEF GivenBack
  <2>2. /\ ~fd'[c]
        /\ \A d \in Conn \ {c} : /\ ev'[d] = ev[d] /\ fd'[d] = fd[d] /\ data'[d] = data[d]
                                 /\ edge'[d] = edge[d]
        /\ \A u \in Client \ {data[c]} : client'[u] = client[u]
    BY <1>1, <2>1 DEF close_connection
  <2>3. Stages'
    BY <1>2, <2>2 DEF Stages
  <2> QED BY <2>2, <2>3
<1> QED BY <1>3, <1>4

\* What making a client does to the slots: a closed one becomes fit, with a timer or with an edge to come.
LEMMA CreateSlots ==
    ASSUME Core, Stages, NEW u \in Client, client[u].life # "live", http_client_create(u)
    PROVE  /\ Stages'
           /\ \A d \in Conn : fd'[d] =>
                 \/ fd[d] /\ ev'[d] = ev[d] /\ edge'[d] = edge[d]
                 \/ ~fd[d] /\ (Timed(ev'[d]) \/ (edge'[d] /\ ev'[d].write.active))
<1> USE DEF poolVars
<1>1. /\ ev \in [Conn -> EventState] /\ client \in [Client -> ClientState] /\ fd \in [Conn -> BOOLEAN]
      /\ data \in [Conn -> Conn \cup Client \cup {NULL}] /\ edge \in [Conn -> BOOLEAN]
  BY DEF Core, StateType
<1>2. \A d \in Conn \ {dns_conn} : fd[d] => data[d] \in Client /\ data[d] # u
  BY DEF Core, ClientConnection
<1>3. CASE Drop(u)
  <2>1. \A v \in Client \ {u} : client'[v] = client[v]
    BY <1>1, <1>3 DEF Drop
  <2> QED BY <1>2, <1>3, <2>1 DEF Drop, Stages
<1>4. CASE HttpConnFails(u)
  <2>1. PICK c \in Conn, x \in {Memset, Connecting(u)} :
           /\ c = free_connections
           /\ ev' = [ev EXCEPT ![c] = Closed(x)]
           /\ client' = [client EXCEPT ![u] = Blank("failed")]
           /\ UNCHANGED <<poolVars, edge>>
    BY <1>4 DEF HttpConnFails
  <2>2. ~fd[c]
    BY <2>1, ClientAssumption DEF Core, PoolConsistent, StateType
  <2>3. /\ \A d \in Conn \ {c} : ev'[d] = ev[d]
        /\ \A v \in Client \ {u} : client'[v] = client[v]
    BY <1>1, <2>1
  <2> QED BY <1>2, <2>1, <2>2, <2>3 DEF Stages
<1>5. CASE http_conn(u)
  <2>1. PICK c \in Conn, immediate \in BOOLEAN :
           /\ get_connection(c)
           /\ data' = [data EXCEPT ![c] = u]
           /\ ev' = [ev EXCEPT ![c] = [Connecting(u) EXCEPT !.write.timer_set = ~immediate]]
           /\ edge' = [edge EXCEPT ![c] = immediate]
           /\ client' = [client EXCEPT ![u] = [Blank("live") EXCEPT !.connection = c]]
    BY <1>5 DEF http_conn
  <2> DEFINE cl == [Blank("live") EXCEPT !.connection = c]
             x == [Connecting(u) EXCEPT !.write.timer_set = ~immediate]
  <2>2. cl.sent = FALSE
    BY DEF Blank
  <2>3. SlotOK(x, u, FALSE) /\ x.write.timer_set = ~immediate /\ x.write.active
    <3>1. (~immediate) \in BOOLEAN
      OBVIOUS
    <3> QED BY <3>1, ConnectingSlot, Zenon
  <2>4. ~fd[c]
    BY <2>1, ClientAssumption DEF get_connection, Core, PoolConsistent, StateType
  <2>5. client' = [client EXCEPT ![u] = cl] /\ ev' = [ev EXCEPT ![c] = x]
    BY <2>1
  <2> HIDE DEF cl, x
  <2>6. /\ ev'[c] = x /\ data'[c] = u /\ client'[u] = cl /\ edge'[c] = immediate
        /\ \A d \in Conn \ {c} : /\ ev'[d] = ev[d] /\ fd'[d] = fd[d] /\ data'[d] = data[d]
                                 /\ edge'[d] = edge[d]
        /\ \A v \in Client \ {u} : client'[v] = client[v]
    BY <1>1, <2>1, <2>5 DEF get_connection
  <2>7. Stages'
    <3>1. SlotOK(x, u, cl.sent)
      BY <2>2, <2>3 DEF SlotOK, Secured
    <3>2. SlotOK(ev'[c], data'[c], client'[data'[c]].sent)
      BY <2>6, <3>1
    <3>3. \A d \in Conn \ {dns_conn, c} : fd'[d] => SlotOK(ev'[d], data'[d], client'[data'[d]].sent)
      BY <1>2, <2>6 DEF Stages
    <3> QED BY <3>2, <3>3 DEF Stages
  <2>8. Timed(x) \/ immediate
    BY <2>3 DEF Timed
  <2> QED BY <2>3, <2>4, <2>6, <2>7, <2>8
<1> QED BY <1>3, <1>4, <1>5 DEF http_client_create
\* connection_init and dns_init: the resolver's read event is registered, no other slot is open.
LEMMA HandlerInit == ASSUME Init PROVE HandlerInv
<1>1. Inv
  BY InitInv
<1>2. dns_conn \in Conn /\ \A c \in Conn : fd[c] <=> c = dns_conn
  <2>1. dns_conn \in Conn
    BY PoolAssumption DEF Conn, dns_conn
  <2>2. \A c \in Conn : fd[c] <=> c = dns_conn
    BY Zenon DEF Init
  <2> QED BY <2>1, <2>2
<1>3. Stages /\ Awake
  BY <1>2 DEF Stages, Awake
<1>4. Matches(ev[dns_conn])
  <2> DEFINE m == [Memset EXCEPT !.read.handler = "dns_process_event"]
  <2>1. m \in EventState
    BY DEF Memset, Cleared, EventState, Event, Handler
  <2>2. ev[dns_conn] = event_add(m, "read")
    <3> HIDE DEF m
    <3> QED BY <1>2, Zenon DEF Init, m
  <2> HIDE DEF m
  <2> QED BY <2>1, <2>2, AddRead
<1> QED BY <1>1, <1>3, <1>4 DEF HandlerInv

\* Steps of the loop that call no handler and leave the slots alone.  The write half of an entry is
\* skipped only if its event is not active: then the EPOLLOUT in it was not what the client waits for.
LEMMA ControlHandlers ==
    ASSUME HandlerInv, Inv',
           \/ Sigint \/ Quit \/ NoPop \/ DnsRead \/ DnsDone \/ SkipWrite \/ BatchDone
           \/ TimersDone \/ Exited \/ UNCHANGED vars
           \/ \E c \in Conn : SkipRead(c)
    PROVE  HandlerInv'
<1>1. UNCHANGED <<fd, data, ev, edge, client>>
  BY DEF Sigint, Quit, NoPop, DnsRead, DnsDone, SkipWrite, BatchDone, TimersDone, Exited,
         SkipRead, vars, poolVars
<1>2. Stages' /\ Matches(ev[dns_conn])'
  BY <1>1 DEF HandlerInv, Stages
<1>3. CASE SkipWrite
  <2>1. cur \in Conn /\ revents \in [Conn -> SUBSET {"IN", "OUT", "RDHUP", "ERR"}]
    BY <1>3 DEF SkipWrite, HandlerInv, Inv, TypeOK
  <2>2. \A d \in Conn \ {cur} : revents'[d] = revents[d]
    BY <1>3, <2>1 DEF SkipWrite, EntryDone
  <2>3. "OUT" \in revents[cur] => ~ev[cur].write.active
    BY <1>3 DEF SkipWrite, CallsWrite, Flags
  <2>4. Awake'
    BY <1>1, <2>2, <2>3 DEF HandlerInv, Awake
  <2> QED BY <1>2, <2>4 DEF HandlerInv
<1>4. CASE ~SkipWrite
  <2>1. revents' = revents
    BY <1>4 DEF Sigint, Quit, NoPop, DnsRead, DnsDone, BatchDone, TimersDone, Exited, SkipRead,
                NextEntry, vars
  <2>2. Awake'
    BY <1>1, <2>1 DEF HandlerInv, Awake
  <2> QED BY <1>2, <2>2 DEF HandlerInv
<1> QED BY <1>3, <1>4

\* epoll_wait hands the edge of an immediate connect() over to an entry with EPOLLOUT.
LEMMA EpollWaitHandlers ==
    ASSUME HandlerInv, Inv', epoll_wait PROVE HandlerInv'
<1>1. PICK r \in [Conn -> SUBSET {"IN", "OUT", "RDHUP", "ERR"}] :
          /\ \A c \in Conn : r[c] \in Reports(c)
          /\ revents' = r
          /\ edge' = [c \in Conn |-> edge[c] /\ r[c] = {}]
  BY DEF epoll_wait
<1>2. pc = "wait" /\ UNCHANGED <<fd, data, ev, client>>
  BY DEF epoll_wait, poolVars
<1>3. Stages' /\ Matches(ev[dns_conn])'
  BY <1>2 DEF HandlerInv, Stages
<1>4. \A c \in Conn : revents[c] = {}
  BY <1>2 DEF HandlerInv, Inv, Phase
<1>5. ASSUME NEW c \in Conn \ {dns_conn}, edge[c], r[c] # {} PROVE "OUT" \in r[c]
  BY <1>1, <1>5 DEF Reports
<1>6. Awake'
  <2>1. ASSUME NEW c \in Conn \ {dns_conn}, fd[c], ~Timed(ev[c])
        PROVE  (edge'[c] \/ "OUT" \in revents'[c]) /\ ev[c].write.active
    <3>1. edge[c] /\ ev[c].write.active
      BY <1>4, <2>1 DEF HandlerInv, Awake
    <3>2. edge'[c] \/ "OUT" \in revents'[c]
      BY <1>1, <1>5, <3>1
    <3> QED BY <3>1, <3>2
  <2> QED BY <1>2, <2>1 DEF Awake
<1> QED BY <1>3, <1>6 DEF HandlerInv

\* A client made by the loop or by a DNS answer.
LEMMA CreateHandlers ==
    ASSUME HandlerInv, Inv', NEW u \in Client, PopUrl(u) \/ DnsAnswer(u) \/ DnsTimeout(u)
    PROVE  HandlerInv'
<1> USE InvParts
<1>1. client[u].life # "live" /\ revents' = revents /\ dns_conn \in Conn /\ fd[dns_conn] /\ fd'[dns_conn]
  BY PoolAssumption DEF PopUrl, DnsAnswer, DnsTimeout, loopVars, HandlerInv, Core, ClientConnection,
                        Conn, dns_conn
<1>2. CASE http_client_create(u)
  <2>1. /\ Stages'
        /\ \A d \in Conn : fd'[d] =>
              \/ fd[d] /\ ev'[d] = ev[d] /\ edge'[d] = edge[d]
              \/ ~fd[d] /\ (Timed(ev'[d]) \/ (edge'[d] /\ ev'[d].write.active))
    BY <1>1, <1>2, CreateSlots DEF HandlerInv
  <2>2. Awake'
    BY <1>1, <2>1 DEF HandlerInv, Awake
  <2>3. Matches(ev[dns_conn])'
    BY <1>1, <2>1 DEF HandlerInv
  <2> QED BY <2>1, <2>2, <2>3 DEF HandlerInv
<1>3. CASE client' = [client EXCEPT ![u].life = "resolving"] /\ UNCHANGED <<poolVars, ev, edge>>
  <2>1. \A v \in Client \ {u} : client'[v] = client[v]
    BY <1>3 DEF HandlerInv, Core, StateType
  <2>2. \A d \in Conn \ {dns_conn} : fd[d] => data[d] \in Client /\ data[d] # u
    BY <1>1 DEF HandlerInv, Core, ClientConnection
  <2>3. Stages' /\ Awake' /\ Matches(ev[dns_conn])'
    BY <1>1, <1>3, <2>1, <2>2 DEF HandlerInv, Stages, Awake, poolVars
  <2> QED BY <2>3 DEF HandlerInv
<1> QED BY <1>2, <1>3 DEF PopUrl, DnsAnswer, DnsTimeout, http_client_create

\* The handler that runs keeps its connection well or gives it back; only its entry may end with it.
LEMMA ServedHandlers ==
    ASSUME HandlerInv, Inv', NEW c \in Conn \ {dns_conn}, fd[c], KeptWell(c) \/ GivenBack(c),
           \A d \in Conn \ {c} : revents'[d] = revents[d]
    PROVE  HandlerInv'
<1>1. Core /\ dns_conn \in Conn
  BY InvParts, PoolAssumption DEF HandlerInv, Conn, dns_conn
<1>2. /\ Stages'
      /\ fd'[c] => Timed(ev'[c])
      /\ \A d \in Conn \ {c} : ev'[d] = ev[d] /\ fd'[d] = fd[d] /\ edge'[d] = edge[d]
  BY <1>1, HandlerSlots DEF HandlerInv
<1>3. Awake'
  BY <1>2 DEF HandlerInv, Awake
<1>4. Matches(ev[dns_conn])'
  BY <1>1, <1>2 DEF HandlerInv
<1> QED BY <1>2, <1>3, <1>4 DEF HandlerInv

\* The read half of an entry, with the EOF it may bring.
LEMMA HttpReadHandlers ==
    ASSUME HandlerInv, Inv', NEW c \in Conn, HttpRead(c) PROVE HandlerInv'
<1>1. Core /\ c # dns_conn /\ CallsRead(c) /\ revents' = revents
  BY InvParts DEF HandlerInv, HttpRead, NextEntry
<1>2. fd[c] /\ ev[c] \in EventState
  BY <1>1, DispatchOpen, SMTT(40) DEF Core, StateType
<1> DEFINE x == [ev[c] EXCEPT !.read.pending_eof = @ \/ "RDHUP" \in Flags(c)]
<1>3. x \in EventState /\ ReadHandler(c, x)
  BY <1>2, FlagsType DEF HttpRead
<1>4. SlotOK(x, data[c], client[data[c]].sent)
  <2>1. SlotOK(ev[c], data[c], client[data[c]].sent)
    BY <1>1, <1>2 DEF HandlerInv, Stages
  <2>2. /\ x.interest = ev[c].interest /\ x.ssl = ev[c].ssl /\ x.saved = ev[c].saved
        /\ x.read.active = ev[c].read.active /\ x.write = ev[c].write
        /\ x.read.handler = ev[c].read.handler /\ x.read.timer_set = ev[c].read.timer_set
    BY <1>2 DEF EventState, Event
  <2> HIDE DEF x
  <2> QED BY <1>2, <1>3, <2>1, <2>2, SameSlot
<1> HIDE DEF x
<1>5. Served(c)
  BY <1>1, <1>2, OpenIsServed
<1>6. KeptWell(c) \/ GivenBack(c)
  BY <1>3, <1>4, <1>5, HandlerWell
<1> QED BY <1>1, <1>2, <1>6, ServedHandlers

\* The write half.
LEMMA HttpWriteHandlers ==
    ASSUME HandlerInv, Inv', HttpWrite PROVE HandlerInv'
<1>1. Core /\ cur \in Conn /\ CallsWrite(cur) /\ WriteHandler(cur, ev[cur])
  BY InvParts DEF HandlerInv, HttpWrite, LoopType
<1>2. fd[cur] /\ cur # dns_conn /\ ev[cur] \in EventState
  BY <1>1, DispatchOpen DEF Core, StateType
<1>3. \A d \in Conn \ {cur} : revents'[d] = revents[d]
  BY InvParts DEF HandlerInv, LoopType, HttpWrite, EntryDone
<1>4. SlotOK(ev[cur], data[cur], client[data[cur]].sent)
  BY <1>1, <1>2 DEF HandlerInv, Stages
<1>5. KeptWell(cur) \/ GivenBack(cur)
  BY <1>1, <1>2, <1>4, OpenIsServed, HandlerWell
<1> QED BY <1>1, <1>2, <1>3, <1>5, ServedHandlers

\* A timer that expires: its event's handler looks at timedout.
LEMMA ExpiryGivesBack ==
    ASSUME HandlerInv, NEW c \in Conn, ExpireRead(c) \/ ExpireWrite(c) PROVE GivenBack(c)
<1>1. Core /\ (ev[c].read.timer_set \/ ev[c].write.timer_set)
  BY InvParts DEF HandlerInv, ExpireRead, ExpireWrite
<1>2. fd[c] /\ c # dns_conn /\ ev[c] \in EventState
  BY <1>1, DispatchOpen DEF Core, StateType
<1>3. Stage(ev[c])
  BY <1>2 DEF HandlerInv, Stages, SlotOK
<1>4. CASE ExpireRead(c)
  <2> DEFINE x == [ev[c] EXCEPT !.read.timer_set = FALSE, !.read.timedout = TRUE]
  <2>1. ev[c].read.timer_set /\ ReadHandler(c, x) /\ x \in EventState
    BY <1>2, <1>4, FlagsType DEF ExpireRead
  <2>2. x.read.timedout /\ x.read.handler = ev[c].read.handler
    BY <1>2 DEF EventState, Event
  <2> HIDE DEF x
  <2>3. x.read.handler = "http_read_event_process"
    BY <1>3, <2>1, <2>2 DEF Stage
  <2> QED BY <2>1, <2>2, <2>3, ExpiredRead, SMTT(40)
<1>5. CASE ExpireWrite(c)
  <2> DEFINE x == [ev[c] EXCEPT !.write.timer_set = FALSE, !.write.timedout = TRUE]
  <2>1. ev[c].write.timer_set /\ WriteHandler(c, x) /\ x \in EventState
    BY <1>2, <1>5, FlagsType DEF ExpireWrite
  <2>2. x.write.timedout /\ x.write.handler = ev[c].write.handler
    BY <1>2 DEF EventState, Event
  <2> HIDE DEF x
  <2>3. x.write.handler \in {"http_write_event_process", "ssl_handshake_handler"}
    BY <1>3, <2>1, <2>2 DEF Stage
  <2> QED BY <2>1, <2>2, <2>3, ExpiredWrite
<1> QED BY <1>4, <1>5

\* So the slot it leaves is closed.
LEMMA ExpireHandlers ==
    ASSUME HandlerInv, Inv', NEW c \in Conn, ExpireRead(c) \/ ExpireWrite(c) PROVE HandlerInv'
<1>1. Core /\ revents' = revents /\ (ev[c].read.timer_set \/ ev[c].write.timer_set)
  BY InvParts DEF HandlerInv, ExpireRead, ExpireWrite, loopVars
<1>2. fd[c] /\ c # dns_conn
  BY <1>1, DispatchOpen
<1> QED BY <1>1, <1>2, ExpiryGivesBack, ServedHandlers

\* Every step of the worker keeps the invariant.
LEMMA HandlerNext == ASSUME HandlerInv, [Next]_vars PROVE HandlerInv'
<1>1. Inv'
  BY NextInv DEF HandlerInv
<1> QED BY <1>1, ControlHandlers, EpollWaitHandlers, CreateHandlers, HttpReadHandlers,
           HttpWriteHandlers, ExpireHandlers DEF Next, LoopStep

\* The invariant holds throughout.
LEMMA HandlerInvariance == Spec => []HandlerInv
BY HandlerInit, HandlerNext, PTL DEF Spec

-----------------------------------------------------------------------------
(* The theorems *)

\* A closed slot is out of the epoll set.
LEMMA ClosedMatches ==
    ASSUME HandlerInv, NEW c \in Conn PROVE Matches(ev[c])
<1>1. CASE ~fd[c]
  BY <1>1 DEF HandlerInv, Inv, Quiet, Matches
<1>2. CASE fd[c] /\ c # dns_conn
  BY <1>2 DEF HandlerInv, Stages, SlotOK
<1>3. CASE c = dns_conn
  BY <1>3 DEF HandlerInv
<1> QED BY <1>1, <1>2, <1>3

\* event_add and event_del, which look at the other event's active flag only, never ask the kernel for
\* an operation it refuses: whatever the order of events, the registration is what the flags say.
THEOREM RegistrationExact == Spec => []InterestMatches
<1>1. HandlerInv => InterestMatches
  BY ClosedMatches DEF InterestMatches, Matches
<1> QED BY <1>1, HandlerInvariance, PTL

\* No event is dispatched, and no timer expires, for a handler that was not set for its connection; the
\* handler of a timed event is one that looks at timedout, borrowed write handlers included.
THEOREM HandlersAlwaysValid == Spec => []HandlersValid
<1>1. HandlerInv => HandlersValid
  <2> SUFFICES ASSUME HandlerInv, NEW c \in Conn
      PROVE  LET x == ev[c] IN
             /\ ~fd[c] => ~(x.read.active \/ x.write.active \/ x.read.timer_set \/ x.write.timer_set)
             /\ c # dns_conn =>
                /\ x.read.active => x.read.handler \in {"http_read_event_process", "ssl_handshake_handler"}
                /\ x.write.active => x.write.handler \notin {"NULL", "dns_process_event"}
                /\ x.read.timer_set => x.read.handler = "http_read_event_process"
                /\ x.write.timer_set => x.write.handler \in {"http_write_event_process", "ssl_handshake_handler"}
                /\ fd[c] => (x.saved # "NULL" <=> x.write.handler = "ssl_write_handler")
    BY DEF HandlersValid
  <2>1. CASE ~fd[c]
    BY <2>1 DEF HandlerInv, Inv, Quiet
  <2>2. CASE fd[c] /\ c # dns_conn
    <3>1. Stage(ev[c])
      BY <2>2 DEF HandlerInv, Stages, SlotOK
    <3> QED BY <2>2, <3>1 DEF Stage
  <2>3. CASE fd[c] /\ c = dns_conn
    BY <2>3
  <2> QED BY <2>1, <2>2, <2>3
<1> QED BY <1>1, HandlerInvariance, PTL

\* No open connection is forgotten by the worker: a timer runs for it, or the EPOLLOUT of its immediate
\* connect() is still to be reported or dispatched.
THEOREM NoConnectionForgotten == Spec => []HasWakeup
<1>1. HandlerInv => HasWakeup
  BY DEF HandlerInv, Awake, HasWakeup, Timed
<1> QED BY <1>1, HandlerInvariance, PTL

\* An https request is sent through the TLS session only, renegotiations and restored handlers included.
THEOREM RequestsSecured == Spec => []TlsBeforeRequest
<1>1. HandlerInv => TlsBeforeRequest
  BY DEF HandlerInv, Stages, SlotOK, Secured, TlsBeforeRequest
<1> QED BY <1>1, HandlerInvariance, PTL

-----------------------------------------------------------------------------
(* timedout and pending_eof, which nothing clears but get_connection *)

NotTimedOut(x) == ~x.read.timedout /\ ~x.write.timedout
Clean(x) == NotTimedOut(x) /\ (x.read.pending_eof => x.ssl # "none")

\* A slot has the flags it had
SameFlags(x, y) ==
    /\ y.read.timedout = x.read.timedout /\ y.write.timedout = x.write.timedout
    /\ y.read.pending_eof = x.read.pending_eof

\* Registering an event, taking it out or starting a timer changes no flag.
LEMMA AddFlags ==
    ASSUME NEW x \in EventState
    PROVE  /\ SameFlags(x, event_add(x, "write")) /\ SameFlags(x, event_add(x, "read"))
           /\ SameFlags(x, event_del(x, "write"))
           /\ \A b \in BOOLEAN : /\ SameFlags(x, [x EXCEPT !.read.timer_set = b])
                                 /\ SameFlags(x, [x EXCEPT !.write.timer_set = b])
<1>1. /\ x.read \in Event /\ x.write \in Event
      /\ \A b \in BOOLEAN : LET r == [x.read EXCEPT !.active = b]
                            IN  r.timedout = x.read.timedout /\ r.pending_eof = x.read.pending_eof
      /\ \A b \in BOOLEAN : [x.write EXCEPT !.active = b].timedout = x.write.timedout
  BY DEF EventState, Event
<1>2. SameFlags(x, event_add(x, "write")) /\ SameFlags(x, event_add(x, "read"))
  BY <1>1, AddWrite, AddRead DEF SameFlags
<1>3. SameFlags(x, event_del(x, "write"))
  BY <1>1, DelWrite DEF SameFlags
<1>4. \A b \in BOOLEAN : SameFlags(x, [x EXCEPT !.read.timer_set = b]) /\ SameFlags(x, [x EXCEPT !.write.timer_set = b])
  BY DEF SameFlags, EventState, Event
<1> QED BY <1>2, <1>3, <1>4

\* Received bytes and a borrowed write handler change no flag.
LEMMA ReceivedFlags ==
    ASSUME NEW x \in EventState
    PROVE  SameFlags(x, Received(x)) /\ SameFlags(x, WantWrite(x))
<1>1. SameFlags(x, Received(x))
  BY DEF Received, SameFlags, EventState, Event
<1>2. SameFlags(x, WantWrite(x))
  <2> DEFINE y == IF x.write.active THEN x ELSE event_add(x, "write")
             z == [y EXCEPT !.saved = y.write.handler, !.write.handler = "ssl_write_handler"]
  <2>1. y \in EventState /\ SameFlags(x, y)
    BY EventAddType, AddFlags DEF SameFlags
  <2>2. WantWrite(x) = y \/ WantWrite(x) = z
    BY DEF WantWrite
  <2> HIDE DEF y
  <2>3. SameFlags(y, z)
    BY <2>1 DEF SameFlags, EventState, Event
  <2> HIDE DEF z
  <2> QED BY <2>1, <2>2, <2>3 DEF SameFlags
<1> QED BY <1>1, <1>2

\* ssl_create changes no flag, and allocates the session.
LEMMA SslCreateFlags ==
    ASSUME NEW x \in EventState
    PROVE  SameFlags(x, ssl_create(x)) /\ ssl_create(x).ssl = "created"
<1> DEFINE x1 == [x EXCEPT !.read.handler = "ssl_handshake_handler",
                           !.write.handler = "ssl_handshake_handler", !.ssl = "created"]
           x2 == IF x1.write.active THEN x1 ELSE event_add(x1, "write")
           x3 == IF x2.read.active THEN x2 ELSE event_add(x2, "read")
<1>1. x1 \in EventState /\ SameFlags(x, x1) /\ x1.ssl = "created"
  BY DEF SameFlags, EventState, Event, Handler
<1>2. ssl_create(x) = x3
  BY DEF ssl_create
<1> HIDE DEF x1
<1>3. x2 \in EventState /\ SameFlags(x1, x2) /\ x2.ssl = x1.ssl
  BY <1>1, EventAddType, AddFlags, AddWrite DEF SameFlags
<1> HIDE DEF x2
<1>4. SameFlags(x2, x3) /\ x3.ssl = x2.ssl
  BY <1>3, AddFlags, AddRead DEF SameFlags
<1> HIDE DEF x3
<1> QED BY <1>1, <1>2, <1>3, <1>4 DEF SameFlags

\* The connection is kept without a flag that a later call could take for its own
KeptClean(c) == \E y \in EventState : \E cl : Keep(c, y, cl) /\ Clean(y)

\* http_read_event_process gives the connection back when there is an EOF to look at.
LEMMA HttpReadFlags ==
    ASSUME NEW c, NEW x \in EventState, NotTimedOut(x), http_read_event_process(c, x)
    PROVE  KeptClean(c) \/ GivenBack(c)
<1>1. CASE Fail(c, x)
  BY <1>1, RetrieveGivesBack DEF Fail
<1>2. CASE ~Fail(c, x)
  <2>1. PICK bytes \in BOOLEAN, wantWrite \in BOOLEAN :
          LET x1 == IF bytes THEN Received(x) ELSE x
              y  == IF wantWrite THEN WantWrite(x1) ELSE x1
          IN  \E cl \in IF bytes THEN ParseOutcomes(client[data[c]]) ELSE {client[data[c]]} :
                 IF cl.status = HTTP_HTML_DONE \/ y.read.pending_eof
                   THEN Retrieve(c, y, cl.status)
                   ELSE Keep(c, y, cl)
    BY <1>2, ZenonT(60) DEF http_read_event_process
  <2> DEFINE x1 == IF bytes THEN Received(x) ELSE x
             y  == IF wantWrite THEN WantWrite(x1) ELSE x1
  <2>2. x1 \in EventState /\ SameFlags(x, x1)
    BY ReceivedType, ReceivedFlags DEF SameFlags
  <2> HIDE DEF x1
  <2>3. y \in EventState /\ SameFlags(x1, y)
    BY <2>2, WantWriteType, ReceivedFlags DEF SameFlags
  <2>4. PICK cl : IF cl.status = HTTP_HTML_DONE \/ y.read.pending_eof
                    THEN Retrieve(c, y, cl.status) ELSE Keep(c, y, cl)
    BY <2>1 DEF x1
  <2> HIDE DEF y
  <2>5. CASE Retrieve(c, y, cl.status)
    BY <2>3, <2>5, RetrieveGivesBack
  <2>6. CASE Keep(c, y, cl) /\ ~y.read.pending_eof
    BY <2>2, <2>3, <2>6 DEF KeptClean, Clean, NotTimedOut, SameFlags
  <2> QED BY <2>4, <2>5, <2>6
<1> QED BY <1>1, <1>2

\* http_write_event_process leaves the flags as they are.
LEMMA HttpWriteFlags ==
    ASSUME NEW c, NEW x \in EventState, Clean(x), http_write_event_process(c, x)
    PROVE  KeptClean(c) \/ GivenBack(c)
<1>1. CASE Fail(c, x)
  BY <1>1, RetrieveGivesBack DEF Fail
<1>2. CASE TransEnd(c, x)
  <2> DEFINE x0 == [x EXCEPT !.write.timer_set = FALSE]
             x1 == IF x.write.active THEN event_del(x0, "write") ELSE x0
             x2 == [x1 EXCEPT !.read.handler = "http_read_event_process"]
             x3 == IF x2.read.active THEN x2 ELSE event_add(x2, "read")
             x4 == [x3 EXCEPT !.read.timer_set = TRUE]
             cl == [client[data[c]] EXCEPT !.status = HTTP_REQ_DONE, !.sent = TRUE]
  <2>1. Keep(c, x4, cl)
    BY <1>2 DEF TransEnd
  <2>2. x0 \in EventState /\ SameFlags(x, x0) /\ x0.ssl = x.ssl
    BY DEF SameFlags, EventState, Event
  <2> HIDE DEF x0
  <2>3. x1 \in EventState /\ SameFlags(x0, x1) /\ x1.ssl = x0.ssl
    BY <2>2, EventDelType, AddFlags, DelWrite DEF SameFlags
  <2> HIDE DEF x1
  <2>4. x2 \in EventState /\ SameFlags(x1, x2) /\ x2.ssl = x1.ssl
    BY <2>3 DEF SameFlags, EventState, Event, Handler
  <2> HIDE DEF x2
  <2>5. x3 \in EventState /\ SameFlags(x2, x3) /\ x3.ssl = x2.ssl
    BY <2>4, EventAddType, AddFlags, AddRead DEF SameFlags
  <2> HIDE DEF x3
  <2>6. x4 \in EventState /\ SameFlags(x3, x4) /\ x4.ssl = x3.ssl
    BY <2>5 DEF SameFlags, EventState, Event
  <2> HIDE DEF x4, cl
  <2>7. Clean(x4)
    BY <2>2, <2>3, <2>4, <2>5, <2>6 DEF Clean, NotTimedOut, SameFlags
  <2> QED BY <2>1, <2>6, <2>7 DEF KeptClean
<1> QED BY <1>1, <1>2 DEF http_write_event_process

\* ssl_handshake_handler keeps an EOF, and leaves the connection with a session.
LEMMA HandshakeFlags ==
    ASSUME NEW c, NEW x \in EventState, NEW timedout, NotTimedOut(x), ssl_handshake_handler(c, x, timedout)
    PROVE  KeptClean(c) \/ GivenBack(c)
<1>1. CASE Fail(c, x)
  BY <1>1, RetrieveGivesBack DEF Fail
<1>2. CASE ~Fail(c, x)
  <2> DEFINE y == IF x.ssl = "none" THEN ssl_create(x) ELSE x
             y1 == [y EXCEPT !.ssl = "handshaked", !.write.timer_set = TRUE,
                             !.write.handler = "http_write_event_process"]
             y2 == [y EXCEPT !.write.timer_set = TRUE]
             cl == client[data[c]]
  <2>1. y \in EventState /\ SameFlags(x, y) /\ y.ssl # "none"
    BY SslCreateType, SslCreateFlags DEF SameFlags
  <2>2. Keep(c, y1, cl) \/ Keep(c, y2, cl)
    BY <1>2 DEF ssl_handshake_handler
  <2> HIDE DEF y, cl
  <2>3. y1 \in EventState /\ SameFlags(y, y1) /\ y1.ssl # "none"
    BY <2>1 DEF SameFlags, EventState, Event, Handler
  <2>4. y2 \in EventState /\ SameFlags(y, y2) /\ y2.ssl # "none"
    BY <2>1 DEF SameFlags, EventState, Event, Handler
  <2> HIDE DEF y1, y2
  <2> QED BY <2>1, <2>2, <2>3, <2>4 DEF KeptClean, Clean, NotTimedOut, SameFlags
<1> QED BY <1>1, <1>2

\* The slots after a handler call: its own is closed or clean, the others are as they were.
LEMMA ServedFlags ==
    ASSUME HandlerInv, FlagsClean, NEW c \in Conn \ {dns_conn}, KeptClean(c) \/ GivenBack(c)
    PROVE  FlagsClean'
<1>1. ev \in [Conn -> EventState] /\ fd \in [Conn -> BOOLEAN]
  BY DEF HandlerInv, Inv, TypeOK
<1>2. CASE KeptClean(c)
  <2>1. PICK y \in EventState : ev' = [ev EXCEPT ![c] = y] /\ fd' = fd /\ Clean(y)
    BY <1>2 DEF KeptClean, Keep, poolVars
  <2> QED BY <1>1, <2>1 DEF FlagsClean, Clean, NotTimedOut
<1>3. CASE GivenBack(c)
  <2>1. PICK y \in EventState : ev' = [ev EXCEPT ![c] = Closed(y)] /\ fd' = [fd EXCEPT ![c] = FALSE]
    BY <1>3 DEF GivenBack, close_connection
  <2> QED BY <1>1, <2>1 DEF FlagsClean
<1> QED BY <1>2, <1>3

\* A slot that get_connection hands out is clean.
LEMMA CreateFlags ==
    ASSUME HandlerInv, FlagsClean, NEW u \in Client, http_client_create(u)
    PROVE  FlagsClean'
<1>1. ev \in [Conn -> EventState] /\ fd \in [Conn -> BOOLEAN]
  BY DEF HandlerInv, Inv, TypeOK
<1>2. CASE Drop(u)
  BY <1>2 DEF Drop, poolVars, FlagsClean
<1>3. CASE HttpConnFails(u)
  <2>1. PICK c \in Conn, x \in {Memset, Connecting(u)} : c = free_connections /\ ev' = [ev EXCEPT ![c] = Closed(x)] /\ fd' = fd
    BY <1>3 DEF HttpConnFails, poolVars
  <2>2. ~fd[c]
    BY <2>1, ClientAssumption DEF HandlerInv, Inv, TypeOK, PoolConsistent
  <2> QED BY <1>1, <2>1, <2>2 DEF FlagsClean
<1>4. CASE http_conn(u)
  <2>1. PICK c \in Conn, immediate \in BOOLEAN :
           /\ ev' = [ev EXCEPT ![c] = [Connecting(u) EXCEPT !.write.timer_set = ~immediate]]
           /\ fd' = [fd EXCEPT ![c] = TRUE]
    BY <1>4 DEF http_conn, get_connection
  <2> DEFINE m == [Memset EXCEPT !.write.handler = FirstHandler(u)]
             b == ~immediate
             x == [Connecting(u) EXCEPT !.write.timer_set = b]
  <2>2. m \in EventState /\ Clean(m) /\ ~m.read.pending_eof
    BY DEF Memset, Cleared, EventState, Event, Handler, FirstHandler, Clean, NotTimedOut
  <2>3. Connecting(u) = event_add(m, "write")
    BY DEF Connecting
  <2> HIDE DEF m
  <2>4. Connecting(u) \in EventState /\ SameFlags(m, Connecting(u))
    BY <2>2, <2>3, AddFlags, EventAddType
  <2>5. b \in BOOLEAN
    OBVIOUS
  <2> HIDE DEF b
  <2>6. SameFlags(Connecting(u), x)
    BY <2>4, <2>5, AddFlags
  <2>7. ev' = [ev EXCEPT ![c] = x]
    BY <2>1 DEF b
  <2> HIDE DEF x
  <2>8. Clean(x)
    BY <2>2, <2>4, <2>6 DEF Clean, NotTimedOut, SameFlags
  <2> QED BY <1>1, <2>1, <2>7, <2>8 DEF FlagsClean, Clean, NotTimedOut
<1> QED BY <1>2, <1>3, <1>4 DEF http_client_create

\* A handler called for an event that did not time out keeps the slot clean.
LEMMA DispatchFlags ==
    ASSUME HandlerInv, FlagsClean, NEW c \in Conn, HttpRead(c) \/ (HttpWrite /\ c = cur)
    PROVE  FlagsClean'
<1>1. Core /\ (HttpRead(c) => c # dns_conn /\ CallsRead(c)) /\ (HttpWrite => CallsWrite(cur))
  BY InvParts DEF HandlerInv, HttpRead, HttpWrite
<1>2. fd[c] /\ c # dns_conn /\ ev[c] \in EventState
  BY <1>1, DispatchOpen DEF Core, StateType
<1>3. Clean(ev[c])
  BY <1>2 DEF FlagsClean, Clean, NotTimedOut
<1>4. ASSUME NEW x \in EventState, NotTimedOut(x), ReadHandler(c, x) PROVE KeptClean(c) \/ GivenBack(c)
  BY <1>4, HttpReadFlags, HandshakeFlags DEF ReadHandler
<1>5. CASE HttpRead(c)
  <2> DEFINE x == [ev[c] EXCEPT !.read.pending_eof = @ \/ "RDHUP" \in Flags(c)]
  <2>1. x \in EventState /\ ReadHandler(c, x)
    BY <1>2, <1>5, FlagsType DEF HttpRead
  <2>2. x.read.timedout = ev[c].read.timedout /\ x.write.timedout = ev[c].write.timedout
    BY <1>2 DEF EventState, Event
  <2> HIDE DEF x
  <2>3. NotTimedOut(x)
    BY <1>3, <2>2 DEF Clean, NotTimedOut
  <2>4. KeptClean(c) \/ GivenBack(c)
    BY <1>4, <2>1, <2>3
  <2> QED BY <1>2, <2>4, ServedFlags, SMTT(40)
<1>6. CASE HttpWrite /\ c = cur
  <2>1. WriteHandler(c, ev[c])
    BY <1>6 DEF HttpWrite
  <2>2. NotTimedOut(ev[c])
    BY <1>3 DEF Clean
  <2>3. KeptClean(c) \/ GivenBack(c)
    <3>1. CASE http_write_event_process(c, ev[c])
      BY <1>2, <1>3, <3>1, HttpWriteFlags
    <3>2. CASE ssl_handshake_handler(c, ev[c], ev[c].write.timedout)
      BY <1>2, <2>2, <3>2, HandshakeFlags
    <3>3. CASE ReadHandler(c, ev[c])
      BY <1>2, <1>4, <2>2, <3>3
    <3> QED BY <2>1, <3>1, <3>2, <3>3 DEF WriteHandler
  <2> QED BY <1>2, <2>3, ServedFlags
<1> QED BY <1>5, <1>6

\* A handler called for a timer gives the connection back, so its timedout is not seen again.
LEMMA ExpireFlags ==
    ASSUME HandlerInv, FlagsClean, NEW c \in Conn, ExpireRead(c) \/ ExpireWrite(c)
    PROVE  FlagsClean'
<1>1. Core /\ (ev[c].read.timer_set \/ ev[c].write.timer_set)
  BY InvParts DEF HandlerInv, ExpireRead, ExpireWrite
<1>2. fd[c] /\ c # dns_conn /\ ev[c] \in EventState
  BY <1>1, DispatchOpen DEF Core, StateType
<1>3. GivenBack(c)
  BY <1>2, ExpiryGivesBack
<1> QED BY <1>2, <1>3, ServedFlags

\* No open connection carries a flag of an earlier use of its slot, or one that an earlier call has dealt
\* with: close_connection clears none, but a handler that finds one closes, and get_connection clears all.
THEOREM FlagsAlwaysFresh == Spec => []FlagsFresh
<1>1. Init => FlagsClean
  <2> SUFFICES ASSUME Init PROVE \A c \in Conn \ {dns_conn} : ~fd[c]
    BY DEF FlagsClean
  <2> QED BY Zenon DEF Init
<1>2. HandlerInv /\ FlagsClean /\ [Next]_vars => FlagsClean'
  <2> SUFFICES ASSUME HandlerInv, FlagsClean, [Next]_vars PROVE FlagsClean'
    OBVIOUS
  <2>1. CASE UNCHANGED <<fd, ev>>
    BY <2>1 DEF FlagsClean
  <2>2. ASSUME NEW u \in Client, PopUrl(u) \/ DnsAnswer(u) \/ DnsTimeout(u) PROVE FlagsClean'
    <3>1. http_client_create(u) \/ UNCHANGED <<fd, ev>>
      BY <2>2 DEF PopUrl, DnsAnswer, DnsTimeout, Drop, poolVars
    <3> QED BY <2>1, <3>1, CreateFlags
  <2>3. ASSUME NEW c \in Conn, HttpRead(c) \/ ExpireRead(c) \/ ExpireWrite(c) PROVE FlagsClean'
    BY <2>3, DispatchFlags, ExpireFlags
  <2>4. CASE HttpWrite
    <3>1. cur \in Conn
      BY <2>4 DEF HttpWrite, HandlerInv, Inv, TypeOK
    <3> QED BY <2>4, <3>1, DispatchFlags
  <2>5. CASE Sigint \/ Quit \/ NoPop \/ epoll_wait \/ DnsRead \/ DnsDone \/ SkipWrite \/ BatchDone \/ TimersDone
             \/ Exited \/ UNCHANGED vars \/ (\E c \in Conn : SkipRead(c))
    <3>1. UNCHANGED <<fd, ev>>
      BY <2>5 DEF Sigint, Quit, NoPop, epoll_wait, DnsRead, DnsDone, SkipWrite, BatchDone, TimersDone, Exited,
                  SkipRead, vars, poolVars
    <3> QED BY <2>1, <3>1
  <2> QED BY <2>2, <2>3, <2>4, <2>5 DEF Next, LoopStep
<1>3. HandlerInv /\ FlagsClean => FlagsFresh
  BY DEF FlagsFresh, HandlerInv, Inv
<1> QED BY <1>1, <1>2, <1>3, HandlerInvariance, PTL DEF Spec

-----------------------------------------------------------------------------
(* EventLoop implements FetchService *)

\* A step of the worker, as the service sees it
FetchStep == Fetch!Next \/ UNCHANGED <<fetchLife, fetchOwner>>

\* Steps that change neither the pool nor the clients are invisible to the service.
LEMMA FetchFrame ==
    ASSUME UNCHANGED <<fd, data, client>> PROVE UNCHANGED <<fetchLife, fetchOwner>>
BY DEF fetchLife, fetchOwner

\* A handler that keeps its connection leaves its client live: a stutter.
LEMMA KeptStutters ==
    ASSUME Core, NEW c \in FetchSlot, fd[c], Kept(c)
    PROVE  UNCHANGED <<fetchLife, fetchOwner>>
<1>1. PICK y \in EventState, cl \in ClientState :
        cl.life = "live" /\ cl.connection = c /\ Keep(c, y, cl)
  BY DEF Kept
<1>2. data[c] \in Client /\ client[data[c]].life = "live" /\ client \in [Client -> ClientState]
  BY DEF Core, StateType, ClientConnection, FetchSlot
<1>3. client' = [client EXCEPT ![data[c]] = cl] /\ fd' = fd /\ data' = data
  BY <1>1 DEF Keep, poolVars
<1>4. \A u \in Client : client'[u].life = client[u].life
  BY <1>1, <1>2, <1>3
<1> QED BY <1>3, <1>4 DEF fetchLife, fetchOwner

\* A handler that gives its connection back ends the fetch of the client that has the slot.
LEMMA GivenBackCloses ==
    ASSUME Core, NEW c \in FetchSlot, fd[c], GivenBack(c)
    PROVE  Fetch!Next
<1>1. PICK y \in EventState, e \in {"parsed", "failed"} :
        close_connection(c, y) /\ client' = [client EXCEPT ![data[c]] = Blank(e)]
  BY DEF GivenBack
<1> DEFINE u == data[c]
<1>2. /\ u \in Client /\ client[u].life = "live"
      /\ client \in [Client -> ClientState] /\ fd \in [Conn -> BOOLEAN]
      /\ data \in [Conn -> Conn \cup Client \cup {NULL}]
  BY DEF Core, StateType, ClientConnection, FetchSlot
<1>3. fetchLife[u] = "live" /\ fetchOwner[c] = u
  BY <1>2 DEF fetchLife, fetchOwner
<1>4. fetchLife' = [fetchLife EXCEPT ![u] = e]
  <2>1. \A v \in Client : client'[v].life = IF v = u THEN e ELSE client[v].life
    BY <1>1, <1>2 DEF Blank
  <2> QED BY <2>1 DEF fetchLife
<1>5. fetchOwner' = [fetchOwner EXCEPT ![c] = NULL]
  <2>1. ~fd'[c] /\ \A d \in FetchSlot \ {c} : fd'[d] = fd[d] /\ data'[d] = data[d]
    BY <1>1, <1>2 DEF close_connection, FetchSlot
  <2> QED BY <2>1 DEF fetchOwner
<1>6. Fetch!Close(u, c)
  BY <1>3, <1>4, <1>5 DEF Fetch!Close, Fetch!Ended
<1> QED BY <1>2, <1>6 DEF Fetch!Next

\* The head of the free list is a slot nobody has, and never the resolver's.
LEMMA HeadIsFree ==
    ASSUME Core, free_connections \in Conn
    PROVE  free_connections \in FetchSlot /\ ~fd[free_connections]
<1>1. free_connection_n > 0 /\ depth[free_connections] = free_connection_n
  BY ClientAssumption DEF Core, StateType, PoolConsistent
<1>2. ~fd[free_connections]
  BY <1>1 DEF Core, StateType, PoolConsistent
<1> QED BY <1>2 DEF Core, ClientConnection, FetchSlot

\* http_client_create opens a free connection for the URL or gives the URL up.
LEMMA CreateOpens ==
    ASSUME Core, NEW u \in Client, client[u].life \in {"queued", "resolving"},
           http_client_create(u)
    PROVE  Fetch!Next
<1>1. client \in [Client -> ClientState] /\ fd \in [Conn -> BOOLEAN]
        /\ data \in [Conn -> Conn \cup Client \cup {NULL}]
  BY DEF Core, StateType
<1>2. fetchLife[u] \in {"queued", "resolving"}
  BY DEF fetchLife
<1>3. CASE Drop(u) \/ HttpConnFails(u)
  <2>1. client' = [client EXCEPT ![u] = Blank("failed")] /\ fd' = fd /\ data' = data
    BY <1>3 DEF Drop, HttpConnFails, poolVars
  <2>2. \A v \in Client : client'[v].life = IF v = u THEN "failed" ELSE client[v].life
    BY <1>1, <2>1 DEF Blank
  <2>3. fetchLife' = [fetchLife EXCEPT ![u] = "failed"]
    BY <2>2 DEF fetchLife
  <2>4. fetchOwner' = fetchOwner
    BY <2>1 DEF fetchOwner
  <2>5. Fetch!GiveUp(u)
    BY <1>2, <2>3, <2>4 DEF Fetch!GiveUp
  <2> QED BY <2>5 DEF Fetch!Next
<1>4. CASE http_conn(u)
  <2>1. PICK c \in Conn :
          /\ c = free_connections
          /\ fd' = [fd EXCEPT ![c] = TRUE]
          /\ data' = [data EXCEPT ![c] = u]
          /\ client' = [client EXCEPT ![u] = [Blank("live") EXCEPT !.connection = c]]
    BY <1>4 DEF http_conn, get_connection
  <2>2. c \in FetchSlot /\ ~fd[c]
    BY <2>1, HeadIsFree
  <2>3. \A v \in Client : client'[v].life = IF v = u THEN "live" ELSE client[v].life
    BY <1>1, <2>1 DEF Blank
  <2>4. fetchLife' = [fetchLife EXCEPT ![u] = "live"]
    BY <2>3 DEF fetchLife
  <2>5. fetchOwner[c] = NULL /\ fetchOwner' = [fetchOwner EXCEPT ![c] = u]
    BY <1>1, <2>1, <2>2 DEF fetchOwner, FetchSlot
  <2>6. Fetch!Open(u, c)
    BY <1>2, <2>4, <2>5 DEF Fetch!Open
  <2> QED BY <2>2, <2>6 DEF Fetch!Next
<1> QED BY <1>3, <1>4 DEF http_client_create

\* A handler, called for an open connection, ends its fetch or is not seen.
LEMMA HandlerFetchStep ==
    ASSUME Core, NEW c \in FetchSlot, fd[c],
           NEW x \in EventState, ReadHandler(c, x) \/ WriteHandler(c, x)
    PROVE  FetchStep
<1>1. Served(c)
  BY OpenIsServed DEF FetchSlot
<1>2. Kept(c) \/ GivenBack(c)
  BY <1>1, ReadHandlerEffect, WriteHandlerEffect
<1> QED BY <1>2, KeptStutters, GivenBackCloses DEF FetchStep

\* Every step of the worker is a step of the service or a stutter.
LEMMA NextIsFetchStep == ASSUME Inv, [Next]_vars PROVE FetchStep
<1> USE InvParts
<1>1. CASE UNCHANGED <<fd, data, client>>
  BY <1>1, FetchFrame DEF FetchStep
<1>2. ASSUME NEW u \in Client, PopUrl(u) \/ DnsAnswer(u) \/ DnsTimeout(u)
      PROVE  FetchStep
  <2>1. client[u].life \in {"queued", "resolving"}
    BY <1>2 DEF PopUrl, DnsAnswer, DnsTimeout
  <2>2. CASE http_client_create(u)
    BY <2>1, <2>2, CreateOpens DEF FetchStep
  <2>3. CASE /\ client[u].life = "queued"
             /\ client' = [client EXCEPT ![u].life = "resolving"]
             /\ UNCHANGED poolVars
    <3>1. client \in [Client -> ClientState]
      BY DEF Core, StateType
    <3>2. \A v \in Client : client'[v].life = IF v = u THEN "resolving" ELSE client[v].life
      BY <2>3, <3>1 DEF ClientState
    <3>3. fetchLife' = [fetchLife EXCEPT ![u] = "resolving"] /\ fetchLife[u] = "queued"
      BY <2>3, <3>2 DEF fetchLife
    <3>4. fetchOwner' = fetchOwner
      BY <2>3 DEF fetchOwner, poolVars
    <3>5. Fetch!Resolve(u)
      BY <3>3, <3>4 DEF Fetch!Resolve
    <3> QED BY <3>5 DEF FetchStep, Fetch!Next
  <2> QED BY <1>2, <2>2, <2>3 DEF PopUrl, DnsAnswer, DnsTimeout, http_client_create
<1>3. ASSUME NEW c \in Conn, HttpRead(c) \/ ExpireRead(c) \/ ExpireWrite(c)
      PROVE  FetchStep
  <2>1. fd[c] /\ c \in FetchSlot
    BY <1>3, DispatchOpen DEF HttpRead, NextEntry, ExpireRead, ExpireWrite, FetchSlot
  <2>2. \E x \in EventState : ReadHandler(c, x) \/ WriteHandler(c, x)
    <3>1. ev[c] \in EventState
      BY DEF Core, StateType
    <3> QED BY <1>3, <3>1, FlagsType DEF HttpRead, ExpireRead, ExpireWrite
  <2> QED BY <2>1, <2>2, HandlerFetchStep
<1>4. CASE HttpWrite
  <2>1. cur \in Conn /\ CallsWrite(cur) /\ WriteHandler(cur, ev[cur])
    BY <1>4 DEF HttpWrite, LoopType
  <2>2. fd[cur] /\ cur \in FetchSlot /\ ev[cur] \in EventState
    BY <2>1, DispatchOpen DEF Core, StateType, FetchSlot
  <2> QED BY <2>1, <2>2, HandlerFetchStep
<1> QED
  BY <1>1, <1>2, <1>3, <1>4
  DEF Next, LoopStep, Sigint, Quit, NoPop, epoll_wait, DnsRead, DnsDone, SkipWrite, BatchDone,
      TimersDone, Exited, SkipRead, vars, poolVars

\* After dns_init no URL has a connection.
LEMMA InitIsFetchInit == ASSUME Init PROVE Fetch!Init
<1>1. fetchLife = [u \in Client |-> "queued"]
  BY DEF Init, fetchLife, Blank
<1>2. fetchOwner = [c \in FetchSlot |-> NULL]
  BY DEF Init, fetchOwner, FetchSlot, Conn
<1> QED BY <1>1, <1>2 DEF Fetch!Init

\* The worker implements FetchService: every URL is fetched at most once, over a slot of its own,
\* whatever the order of events, errors, timers and answers, for every pool and every set of clients.
THEOREM WorkerFetchesOnce == Spec => FetchesOnce
<1>1. Inv /\ [Next]_vars => [Fetch!Next]_<<fetchLife, fetchOwner>>
  BY NextIsFetchStep DEF FetchStep
<1> QED BY <1>1, InitIsFetchInit, Invariance, PTL DEF Spec, FetchesOnce, Fetch!Spec

=============================================================================
