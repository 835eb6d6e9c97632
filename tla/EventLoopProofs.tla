---------------------------- MODULE EventLoopProofs ----------------------------
(* Proofs about EventLoop, for every size of the pool and every set of clients. *)
EXTENDS EventLoop, FiniteSetTheorems, TLAPS

-----------------------------------------------------------------------------
(* The operators on a slot's events *)

\* What the memset of get_connection and a calloc leave has the right type.
LEMMA MemsetType == Memset \in EventState
BY DEF Memset, Cleared, EventState, Event, Handler

\* A calloc'ed client has the right type and no connection.
LEMMA BlankType ==
    ASSUME NEW life \in {"queued", "resolving", "live", "parsed", "failed"}
    PROVE  Blank(life) \in ClientState
BY DEF Blank, ClientState, HTTP_CONN_DONE

\* event_add and event_del keep the type, and touch nothing but the event's active flag and
\* the registration.
LEMMA EventAddType ==
    ASSUME NEW x \in EventState, NEW side \in {"read", "write"}
    PROVE  event_add(x, side) \in EventState
<1>1. SetActive(x, side, TRUE) \in EventState
  BY DEF SetActive, EventState, Event
<1>2. {Flag(side)} \cup (IF Other(x, side).active THEN {OtherFlag(side)} ELSE {}) \in SUBSET {"IN", "OUT"}
  BY DEF Flag, OtherFlag
<1> QED BY <1>1, <1>2 DEF event_add, EventState

\* The same of event_del.
LEMMA EventDelType ==
    ASSUME NEW x \in EventState, NEW side \in {"read", "write"}
    PROVE  event_del(x, side) \in EventState
<1>1. SetActive(x, side, FALSE) \in EventState
  BY DEF SetActive, EventState, Event
<1>2. (IF Other(x, side).active THEN {OtherFlag(side)} ELSE {}) \in SUBSET {"IN", "OUT"}
  BY DEF OtherFlag
<1> QED BY <1>1, <1>2 DEF event_del, EventState

\* A closed slot is inactive, without timers and out of the epoll set.
LEMMA ClosedType ==
    ASSUME NEW x \in EventState
    PROVE  /\ Closed(x) \in EventState
           /\ ~Closed(x).read.active /\ ~Closed(x).write.active
           /\ ~Closed(x).read.timer_set /\ ~Closed(x).write.timer_set
           /\ Closed(x).interest = {}
BY DEF Closed, EventState, Event

\* http_conn leaves a well-typed slot.
LEMMA ConnectingType ==
    ASSUME NEW u PROVE Connecting(u) \in EventState
<1>1. [Memset EXCEPT !.write.handler = FirstHandler(u)] \in EventState
  BY DEF Memset, Cleared, EventState, Event, Handler, FirstHandler
<1> QED BY <1>1, EventAddType DEF Connecting

\* Received bytes keep the type of the slot.
LEMMA ReceivedType ==
    ASSUME NEW x \in EventState PROVE Received(x) \in EventState
BY DEF Received, EventState, Event, Handler

\* So does ssl_handle_recv when SSL_read wants to write.
LEMMA WantWriteType ==
    ASSUME NEW x \in EventState PROVE WantWrite(x) \in EventState
<1> DEFINE y == IF x.write.active THEN x ELSE event_add(x, "write")
<1>1. y \in EventState
  BY EventAddType
<1> HIDE DEF y
<1>2. [y EXCEPT !.saved = y.write.handler, !.write.handler = "ssl_write_handler"] \in EventState
  BY <1>1 DEF EventState, Event, Handler
<1> QED BY <1>1, <1>2 DEF WantWrite, y

\* And so does ssl_create.
LEMMA SslCreateType ==
    ASSUME NEW x \in EventState PROVE ssl_create(x) \in EventState
<1> DEFINE x1 == [x EXCEPT !.read.handler = "ssl_handshake_handler",
                           !.write.handler = "ssl_handshake_handler", !.ssl = "created"]
           x2 == IF x1.write.active THEN x1 ELSE event_add(x1, "write")
<1>1. x1 \in EventState
  BY DEF EventState, Event, Handler
<1> HIDE DEF x1
<1>2. x2 \in EventState
  BY <1>1, EventAddType
<1> HIDE DEF x2
<1>3. (IF x2.read.active THEN x2 ELSE event_add(x2, "read")) \in EventState
  BY <1>2, EventAddType
<1> QED BY <1>3 DEF ssl_create, x1, x2

-----------------------------------------------------------------------------
(* The inductive invariant *)

\* close_connection takes a slot out of the epoll set and the timer tree; the resolver's slot has
\* no write event and no timer.
Quiet ==
    /\ \A c \in Conn : ~fd[c] =>
          /\ ~ev[c].read.active /\ ~ev[c].write.active
          /\ ~ev[c].read.timer_set /\ ~ev[c].write.timer_set
          /\ ev[c].interest = {}
    /\ ~ev[dns_conn].write.active
    /\ ~ev[dns_conn].read.timer_set /\ ~ev[dns_conn].write.timer_set

\* Entries are pending only while a batch is dispatched, and dns_process_event runs for the
\* resolver's entry.
Phase ==
    /\ pc \notin {"batch", "write", "dns"} => \A c \in Conn : revents[c] = {}
    /\ pc = "dns" => cur = dns_conn

Inv == TypeOK /\ PoolConsistent /\ ClientConnection /\ NoStaleDispatch /\ Quiet /\ Phase

-----------------------------------------------------------------------------
(* What a handler does to the pool: it keeps its connection or gives it back *)

Kept(c) ==
    \E y \in EventState, cl \in ClientState :
       cl.life = "live" /\ cl.connection = c /\ Keep(c, y, cl)

GivenBack(c) ==
    \E y \in EventState, life \in {"parsed", "failed"} :
       close_connection(c, y) /\ client' = [client EXCEPT ![data[c]] = Blank(life)]

\* The connection an event handler is called for
Served(c) ==
    /\ c \in Conn /\ data[c] \in Client
    /\ client[data[c]] \in ClientState
    /\ client[data[c]].life = "live" /\ client[data[c]].connection = c

\* http_client_retrieve closes the connection of the client and frees the client.
LEMMA RetrieveGivesBack ==
    ASSUME NEW c, NEW y \in EventState, NEW status, Retrieve(c, y, status)
    PROVE  GivenBack(c)
BY DEF Retrieve, GivenBack

\* Moving a client's status on leaves it allocated, with the same connection.
LEMMA StatusType ==
    ASSUME NEW cl \in ClientState, NEW s \in 0..3,
           NEW cl1 \in {[cl EXCEPT !.status = s], [cl EXCEPT !.status = s, !.head = TRUE],
                        [cl EXCEPT !.status = s, !.sent = TRUE]}
    PROVE  cl1 \in ClientState /\ cl1.life = cl.life /\ cl1.connection = cl.connection
BY DEF ClientState

\* The parser moves a client's status and nothing else.
LEMMA ParseType ==
    ASSUME NEW cl \in ClientState, NEW cl1 \in ParseOutcomes(cl)
    PROVE  cl1 \in ClientState /\ cl1.life = cl.life /\ cl1.connection = cl.connection
<1>1. HTTP_HEAD_DONE \in 0..3 /\ HTTP_HTML_DONE \in 0..3
  BY DEF HTTP_HEAD_DONE, HTTP_HTML_DONE
<1>2. \/ cl1 = cl
      \/ cl1 = [cl EXCEPT !.status = HTTP_HEAD_DONE, !.head = TRUE]
      \/ cl1 = [cl EXCEPT !.status = HTTP_HTML_DONE, !.head = TRUE]
      \/ cl1 = [cl EXCEPT !.status = HTTP_HTML_DONE]
  BY Zenon DEF ParseOutcomes
<1>3. CASE cl1 = cl
  BY <1>3
<1>4. CASE cl1 = [cl EXCEPT !.status = HTTP_HEAD_DONE, !.head = TRUE]
  BY <1>1, <1>4, StatusType
<1>5. CASE cl1 = [cl EXCEPT !.status = HTTP_HTML_DONE, !.head = TRUE]
  BY <1>1, <1>5, StatusType
<1>6. CASE cl1 = [cl EXCEPT !.status = HTTP_HTML_DONE]
  BY <1>1, <1>6, StatusType
<1> QED BY <1>2, <1>3, <1>4, <1>5, <1>6

\* http_read_event_process keeps the connection or gives it back.
LEMMA HttpReadEffect ==
    ASSUME NEW c, NEW x \in EventState, Served(c), http_read_event_process(c, x)
    PROVE  Kept(c) \/ GivenBack(c)
<1>1. CASE Fail(c, x)
  BY <1>1, RetrieveGivesBack DEF Fail
<1>2. CASE ~Fail(c, x)
  <2> DEFINE cl0 == client[data[c]]
  <2>1. PICK bytes \in BOOLEAN, wantWrite \in BOOLEAN :
          LET x1 == IF bytes THEN Received(x) ELSE x
              y  == IF wantWrite THEN WantWrite(x1) ELSE x1
          IN  \E cl \in IF bytes THEN ParseOutcomes(cl0) ELSE {cl0} :
                 IF cl.status = HTTP_HTML_DONE \/ y.read.pending_eof
                   THEN Retrieve(c, y, cl.status)
                   ELSE Keep(c, y, cl)
    BY <1>2 DEF http_read_event_process
  <2> DEFINE x1 == IF bytes THEN Received(x) ELSE x
             y  == IF wantWrite THEN WantWrite(x1) ELSE x1
  <2>2. x1 \in EventState
    BY ReceivedType
  <2> HIDE DEF x1
  <2>3. y \in EventState
    BY <2>2, WantWriteType
  <2>4. PICK cl \in IF bytes THEN ParseOutcomes(cl0) ELSE {cl0} :
          IF cl.status = HTTP_HTML_DONE \/ y.read.pending_eof
            THEN Retrieve(c, y, cl.status)
            ELSE Keep(c, y, cl)
    BY <2>1 DEF x1
  <2>5. cl \in ClientState /\ cl.life = "live" /\ cl.connection = c
    BY <2>4, ParseType DEF Served
  <2> HIDE DEF y
  <2> QED BY <2>3, <2>4, <2>5, RetrieveGivesBack DEF Kept
<1> QED BY <1>1, <1>2

\* So does http_write_event_process.
LEMMA HttpWriteEffect ==
    ASSUME NEW c, NEW x \in EventState, Served(c), http_write_event_process(c, x)
    PROVE  Kept(c) \/ GivenBack(c)
<1>1. CASE Fail(c, x)
  BY <1>1, RetrieveGivesBack DEF Fail
<1>2. CASE TransEnd(c, x)
  <2> DEFINE x0 == [x EXCEPT !.write.timer_set = FALSE]
             x1 == IF x.write.active THEN event_del(x0, "write") ELSE x0
             x2 == [x1 EXCEPT !.read.handler = "http_read_event_process"]
             x3 == IF x2.read.active THEN x2 ELSE event_add(x2, "read")
             x4 == [x3 EXCEPT !.read.timer_set = TRUE]
             cl == [client[data[c]] EXCEPT !.status = HTTP_REQ_DONE, !.sent = TRUE]
  <2>1. Keep(c, x4, cl)
    BY <1>2 DEF TransEnd
  <2>2. x0 \in EventState
    BY DEF EventState, Event
  <2> HIDE DEF x0
  <2>3. x1 \in EventState
    BY <2>2, EventDelType
  <2> HIDE DEF x1
  <2>4. x2 \in EventState
    BY <2>3 DEF EventState, Event, Handler
  <2> HIDE DEF x2
  <2>5. x3 \in EventState
    BY <2>4, EventAddType
  <2> HIDE DEF x3
  <2>6. x4 \in EventState
    BY <2>5 DEF EventState, Event
  <2>7. cl \in ClientState /\ cl.life = "live" /\ cl.connection = c
    <3>1. HTTP_REQ_DONE \in 0..3
      BY DEF HTTP_REQ_DONE
    <3> QED BY <3>1, StatusType DEF Served
  <2> HIDE DEF x4, cl
  <2> QED BY <2>1, <2>6, <2>7 DEF Kept
<1> QED BY <1>1, <1>2 DEF http_write_event_process

\* And so does ssl_handshake_handler.
LEMMA HandshakeEffect ==
    ASSUME NEW c, NEW x \in EventState, NEW timedout, Served(c),
           ssl_handshake_handler(c, x, timedout)
    PROVE  Kept(c) \/ GivenBack(c)
<1>1. CASE Fail(c, x)
  BY <1>1, RetrieveGivesBack DEF Fail
<1>2. CASE ~Fail(c, x)
  <2> DEFINE y == IF x.ssl = "none" THEN ssl_create(x) ELSE x
             y1 == [y EXCEPT !.ssl = "handshaked", !.write.timer_set = TRUE,
                             !.write.handler = "http_write_event_process"]
             y2 == [y EXCEPT !.write.timer_set = TRUE]
  <2>1. y \in EventState
    BY SslCreateType
  <2>2. Keep(c, y1, client[data[c]]) \/ Keep(c, y2, client[data[c]])
    BY <1>2 DEF ssl_handshake_handler
  <2> HIDE DEF y
  <2>3. y1 \in EventState /\ y2 \in EventState
    BY <2>1 DEF EventState, Event, Handler
  <2> HIDE DEF y1, y2
  <2> QED BY <2>2, <2>3 DEF Kept, Served
<1> QED BY <1>1, <1>2

\* Whatever handler an event has, calling it keeps the connection or gives it back.
LEMMA ReadHandlerEffect ==
    ASSUME NEW c, NEW x \in EventState, Served(c), ReadHandler(c, x)
    PROVE  Kept(c) \/ GivenBack(c)
BY HttpReadEffect, HandshakeEffect DEF ReadHandler

\* The same of the write half, ssl_write_handler included.
LEMMA WriteHandlerEffect ==
    ASSUME NEW c, NEW x \in EventState, Served(c), WriteHandler(c, x)
    PROVE  Kept(c) \/ GivenBack(c)
BY HttpWriteEffect, HandshakeEffect, ReadHandlerEffect DEF WriteHandler

-----------------------------------------------------------------------------
(* The effects preserve what the invariant says of the pool and the clients *)

StateType ==
    /\ free_connections \in Conn \cup {NULL}
    /\ free_connection_n \in Nat
    /\ depth \in [Conn -> Nat]
    /\ fd \in [Conn -> BOOLEAN]
    /\ data \in [Conn -> Conn \cup Client \cup {NULL}]
    /\ ev \in [Conn -> EventState]
    /\ edge \in [Conn -> BOOLEAN]
    /\ client \in [Client -> ClientState]

Core == StateType /\ PoolConsistent /\ ClientConnection /\ Quiet

\* The pool is finite, so opening or closing a slot changes the number of closed ones by one.
LEMMA ConnFinite == IsFiniteSet(Conn)
BY FS_Interval, PoolAssumption DEF Conn

\* The count of closed slots when one of them changes.
LEMMA ClosedCount ==
    ASSUME NEW S \in SUBSET Conn, NEW c \in Conn
    PROVE  /\ IsFiniteSet(S) /\ Cardinality(S) \in Nat
           /\ c \notin S => Cardinality(S \cup {c}) = Cardinality(S) + 1
           /\ c \in S => Cardinality(S \ {c}) = Cardinality(S) - 1
BY ConnFinite, FS_Subset, FS_CardinalityType, FS_AddElement, FS_RemoveElement

\* An open slot other than the resolver's is served for its client.
LEMMA OpenIsServed ==
    ASSUME Core, NEW c \in Conn \ {dns_conn}, fd[c]
    PROVE  Served(c)
BY DEF Core, StateType, ClientConnection, Served

\* A handler that keeps its connection keeps the pool and the ownership of connections.
LEMMA KeptCore ==
    ASSUME Core, NEW c \in Conn \ {dns_conn}, fd[c], Kept(c)
    PROVE  Core' /\ fd' = fd /\ data' = data
<1> PICK y \in EventState, cl \in ClientState :
      cl.life = "live" /\ cl.connection = c /\ Keep(c, y, cl)
  BY DEF Kept
<1> USE DEF Keep, poolVars
<1>1. data[c] \in Client /\ client[data[c]].connection = c
  BY DEF Core, ClientConnection
<1>2. StateType'
  BY <1>1 DEF Core, StateType
<1>3. PoolConsistent'
  BY DEF Core, PoolConsistent
<1>4. ClientConnection'
  BY <1>1 DEF Core, ClientConnection, StateType
<1>5. Quiet'
  BY DEF Core, Quiet, StateType
<1> QED BY <1>2, <1>3, <1>4, <1>5 DEF Core

\* A handler that gives its connection back puts its slot at the head of the free list, and the
\* other clients keep theirs.
LEMMA GivenBackCore ==
    ASSUME Core, NEW c \in Conn \ {dns_conn}, fd[c], GivenBack(c)
    PROVE  /\ Core' /\ ~fd'[c]
           /\ \A d \in Conn \ {c} : fd'[d] = fd[d] /\ data'[d] = data[d]
<1> PICK y \in EventState, life \in {"parsed", "failed"} :
      close_connection(c, y) /\ client' = [client EXCEPT ![data[c]] = Blank(life)]
  BY DEF GivenBack
<1>1. data[c] \in Client /\ client[data[c]].connection = c
  BY DEF Core, ClientConnection
<1>2. Blank(life) \in ClientState /\ Blank(life).life = life /\ Blank(life).connection = NULL
  BY BlankType DEF Blank
<1>3. StateType'
  BY <1>1, <1>2, ClosedType DEF Core, StateType, close_connection
<1>4. PoolConsistent'
  <2>1. {d \in Conn : ~fd'[d]} = {d \in Conn : ~fd[d]} \cup {c}
    BY DEF Core, StateType, close_connection
  <2>2. (free_connection_n = Cardinality({d \in Conn : ~fd[d]}))'
    BY <2>1, ClosedCount DEF Core, PoolConsistent, close_connection
  <2>3. (\A d \in Conn : /\ fd[d] <=> depth[d] = 0
                         /\ depth[d] <= free_connection_n
                         /\ depth[d] = 1 => data[d] = NULL
                         /\ depth[d] > 1 => data[d] \in Conn /\ depth[data[d]] = depth[d] - 1)'
    BY DEF Core, StateType, PoolConsistent, close_connection
  <2>4. (\A d, e \in Conn : depth[d] = depth[e] /\ depth[d] # 0 => d = e)'
    BY DEF Core, StateType, PoolConsistent, close_connection
  <2>5. (free_connection_n > 0 => /\ free_connections \in Conn
                                  /\ depth[free_connections] = free_connection_n)'
    BY DEF Core, StateType, PoolConsistent, close_connection
  <2>6. (free_connection_n = 0 => free_connections = NULL)'
    BY DEF Core, StateType, close_connection
  <2> QED BY <2>2, <2>3, <2>4, <2>5, <2>6 DEF PoolConsistent
<1>5. ClientConnection'
  BY <1>1, <1>2 DEF Core, ClientConnection, StateType, close_connection
<1>6. Quiet'
  BY ClosedType DEF Core, Quiet, StateType, close_connection
<1>7. ~fd'[c] /\ \A d \in Conn \ {c} : fd'[d] = fd[d] /\ data'[d] = data[d]
  BY DEF Core, StateType, close_connection
<1> QED BY <1>3, <1>4, <1>5, <1>6, <1>7 DEF Core

\* http_client_create takes the head of the free list or leaves the pool as it was; a connection
\* that was open stays open for its client.
LEMMA CreateCore ==
    ASSUME Core, NEW u \in Client, client[u].life # "live", http_client_create(u)
    PROVE  Core' /\ \A d \in Conn : fd[d] => fd'[d] /\ data'[d] = data[d]
<1>1. CASE Drop(u)
  <2>1. Blank("failed") \in ClientState /\ Blank("failed").life = "failed"
          /\ Blank("failed").connection = NULL
    BY BlankType DEF Blank
  <2>2. StateType' /\ PoolConsistent' /\ Quiet'
    BY <1>1, <2>1 DEF Drop, poolVars, Core, StateType, PoolConsistent, Quiet
  <2>3. ClientConnection'
    BY <1>1, <2>1 DEF Drop, poolVars, Core, StateType, ClientConnection
  <2> QED BY <1>1, <2>2, <2>3 DEF Drop, poolVars, Core
<1>2. CASE HttpConnFails(u)
  <2>1. PICK c \in Conn, x \in {Memset, Connecting(u)} :
           /\ c = free_connections
           /\ ev' = [ev EXCEPT ![c] = Closed(x)]
           /\ client' = [client EXCEPT ![u] = Blank("failed")]
           /\ UNCHANGED <<poolVars, edge>>
    BY <1>2 DEF HttpConnFails
  <2>2. Blank("failed") \in ClientState /\ Blank("failed").life = "failed"
          /\ Blank("failed").connection = NULL
    BY BlankType DEF Blank
  <2>3. x \in EventState
    BY MemsetType, ConnectingType
  <2>4. ~fd[c]
    BY <2>1, ClientAssumption DEF Core, PoolConsistent, StateType
  <2>5. StateType' /\ PoolConsistent'
    BY <2>1, <2>2, <2>3, ClosedType DEF poolVars, Core, StateType, PoolConsistent
  <2>6. Quiet'
    BY <2>1, <2>3, <2>4, ClosedType DEF poolVars, Core, StateType, Quiet, ClientConnection
  <2>7. ClientConnection'
    BY <2>1, <2>2 DEF poolVars, Core, StateType, ClientConnection
  <2> QED BY <2>1, <2>5, <2>6, <2>7 DEF poolVars, Core
<1>3. CASE http_conn(u)
  <2>1. PICK c \in Conn, immediate \in BOOLEAN :
           /\ get_connection(c)
           /\ data' = [data EXCEPT ![c] = u]
           /\ ev' = [ev EXCEPT ![c] = [Connecting(u) EXCEPT !.write.timer_set = ~immediate]]
           /\ edge' = [edge EXCEPT ![c] = immediate]
           /\ client' = [client EXCEPT ![u] = [Blank("live") EXCEPT !.connection = c]]
    BY <1>3 DEF http_conn
  <2> DEFINE cl == [Blank("live") EXCEPT !.connection = c]
             x == [Connecting(u) EXCEPT !.write.timer_set = ~immediate]
  <2>2. cl \in ClientState /\ cl.life = "live" /\ cl.connection = c
    <3>1. Blank("live") \in ClientState /\ Blank("live").life = "live"
      BY BlankType DEF Blank
    <3> QED BY <3>1 DEF ClientState
  <2>3. x \in EventState
    BY ConnectingType DEF EventState, Event
  <2> HIDE DEF cl, x
  <2>4. ~fd[c] /\ free_connection_n > 0 /\ depth[c] = free_connection_n
    BY <2>1, ClientAssumption DEF get_connection, Core, PoolConsistent, StateType
  <2>5. data[c] \in Conn \cup {NULL}
    BY <2>4 DEF Core, PoolConsistent, StateType
  <2>6. StateType'
    BY <2>1, <2>2, <2>3, <2>4, <2>5 DEF get_connection, Core, StateType, cl, x
  <2>7. PoolConsistent'
    <3>1. {d \in Conn : ~fd'[d]} = {d \in Conn : ~fd[d]} \ {c}
      BY <2>1 DEF Core, StateType, get_connection
    <3>2. (free_connection_n = Cardinality({d \in Conn : ~fd[d]}))'
      BY <2>1, <2>4, <3>1, ClosedCount DEF Core, PoolConsistent, get_connection
    <3>3. (\A d \in Conn : /\ fd[d] <=> depth[d] = 0
                           /\ depth[d] <= free_connection_n
                           /\ depth[d] = 1 => data[d] = NULL
                           /\ depth[d] > 1 => data[d] \in Conn /\ depth[data[d]] = depth[d] - 1)'
      BY <2>1, <2>4 DEF Core, StateType, PoolConsistent, get_connection
    <3>4. (\A d, e \in Conn : depth[d] = depth[e] /\ depth[d] # 0 => d = e)'
      BY <2>1 DEF Core, StateType, PoolConsistent, get_connection
    <3>5. (free_connection_n > 0 => /\ free_connections \in Conn
                                    /\ depth[free_connections] = free_connection_n)'
      BY <2>1, <2>4 DEF Core, StateType, PoolConsistent, get_connection
    <3>6. (free_connection_n = 0 => free_connections = NULL)'
      BY <2>1, <2>4 DEF Core, StateType, PoolConsistent, get_connection
    <3> QED BY <3>2, <3>3, <3>4, <3>5, <3>6 DEF PoolConsistent
  <2>8. ClientConnection'
    BY <2>1, <2>2, <2>4 DEF get_connection, Core, StateType, ClientConnection, cl
  <2>9. Quiet'
    BY <2>1, <2>3, <2>4 DEF get_connection, Core, StateType, Quiet, ClientConnection
  <2>10. \A d \in Conn : fd[d] => fd'[d] /\ data'[d] = data[d]
    BY <2>1, <2>4 DEF get_connection, Core, StateType
  <2> QED BY <2>6, <2>7, <2>8, <2>9, <2>10 DEF Core
<1> QED BY <1>1, <1>2, <1>3 DEF http_client_create

-----------------------------------------------------------------------------
(* The invariant is inductive *)

LoopType ==
    /\ pc \in {"top", "wait", "batch", "write", "dns", "timers", "exit"}
    /\ cur \in Conn \cup {NULL} /\ (cur # NULL <=> pc \in {"write", "dns"})
    /\ revents \in [Conn -> SUBSET {"IN", "OUT", "RDHUP", "ERR"}]
    /\ evOwner \in [Conn -> Conn \cup Client \cup {NULL}]
    /\ crawler_quit \in BOOLEAN

\* The parts of Inv, before and after a step.
LEMMA InvParts ==
    /\ Inv <=> LoopType /\ Core /\ NoStaleDispatch /\ Phase
    /\ Inv' <=> LoopType' /\ Core' /\ NoStaleDispatch' /\ Phase'
BY DEF Inv, TypeOK, LoopType, Core, StateType

\* connection_init and dns_init establish Inv.
LEMMA InitInv == ASSUME Init PROVE Inv
<1> USE PoolAssumption DEF Conn, dns_conn
<1>1. event_add([Memset EXCEPT !.read.handler = "dns_process_event"], "read") \in EventState
  <2>1. [Memset EXCEPT !.read.handler = "dns_process_event"] \in EventState
    BY DEF Memset, Cleared, EventState, Event, Handler
  <2> QED BY <2>1, EventAddType
<1>2. LoopType
  BY ClientAssumption DEF Init, LoopType
<1>3. StateType
  BY <1>1, MemsetType, BlankType DEF Init, StateType
<1>4. PoolConsistent
  <2>1. \A c \in Conn : fd[c] <=> c = 0
    BY DEF Init
  <2>2. {c \in Conn : ~fd[c]} = 1..(N - 1)
    BY <2>1
  <2>3. Cardinality(1..(N - 1)) = N - 1
    BY FS_Interval
  <2>4. \A c \in Conn : depth[c] = IF c = 0 THEN 0 ELSE N - c
    BY DEF Init
  <2>5. \A c \in Conn : data[c] = IF c = 0 \/ c = N - 1 THEN NULL ELSE c + 1
    BY DEF Init
  <2>6. free_connections = 1 /\ free_connection_n = N - 1
    BY DEF Init
  <2>7. \A c \in Conn : /\ fd[c] <=> depth[c] = 0
                        /\ depth[c] <= free_connection_n
                        /\ depth[c] = 1 => data[c] = NULL
    BY <2>1, <2>4, <2>5, <2>6, ClientAssumption
  <2>8. \A c \in Conn : depth[c] > 1 => data[c] \in Conn /\ depth[data[c]] = depth[c] - 1
    BY <2>4, <2>5
  <2>9. \A c, d \in Conn : depth[c] = depth[d] /\ depth[c] # 0 => c = d
    BY <2>4
  <2>10. free_connection_n > 0 /\ free_connections \in Conn
           /\ depth[free_connections] = free_connection_n
    BY <2>4, <2>6
  <2>11. free_connection_n = Cardinality({c \in Conn : ~fd[c]})
    BY <2>2, <2>3, <2>6, Zenon
  <2>12. free_connection_n # 0
    BY <2>6
  <2> HIDE DEF Conn
  <2> QED BY <2>7, <2>8, <2>9, <2>10, <2>11, <2>12, Zenon DEF PoolConsistent
<1>5. ClientConnection
  <2>1. \A c \in Conn : fd[c] <=> c = 0
    BY DEF Init
  <2>2. data[0] = NULL
    BY DEF Init
  <2>3. \A u \in Client : client[u].life = "queued" /\ client[u].connection = NULL
    BY DEF Init, Blank
  <2> QED BY <2>1, <2>2, <2>3 DEF ClientConnection
<1>6. Quiet
  <2> DEFINE x == event_add([Memset EXCEPT !.read.handler = "dns_process_event"], "read")
  <2>1. ~x.write.active /\ ~x.read.timer_set /\ ~x.write.timer_set
    <3> DEFINE m == [Memset EXCEPT !.read.handler = "dns_process_event"]
    <3>1. m \in EventState /\ ~m.write.active /\ ~m.read.timer_set /\ ~m.write.timer_set
      BY DEF Memset, Cleared, EventState, Event, Handler
    <3> HIDE DEF m
    <3>2. x.write = m.write /\ x.read.timer_set = m.read.timer_set
      BY <3>1 DEF event_add, SetActive, EventState, Event, m
    <3> QED BY <3>1, <3>2
  <2> HIDE DEF x
  <2>2. ev[0] = x /\ fd[0]
    <3>1. 0 \in Conn
      OBVIOUS
    <3> HIDE DEF Conn
    <3> QED BY <3>1, Zenon DEF Init, x
  <2>3. \A c \in Conn \ {0} : ev[c] = Memset
    BY DEF Init
  <2>4. /\ ~Memset.read.active /\ ~Memset.write.active
        /\ ~Memset.read.timer_set /\ ~Memset.write.timer_set /\ Memset.interest = {}
    BY DEF Memset, Cleared
  <2> QED BY <2>1, <2>2, <2>3, <2>4 DEF Quiet
<1>7. NoStaleDispatch /\ Phase
  BY ClientAssumption DEF Init, NoStaleDispatch, Phase
<1> QED BY <1>2, <1>3, <1>4, <1>5, <1>6, <1>7, InvParts DEF Core

\* The state of the loop aside, an action that leaves pool, events and clients alone keeps Core.
LEMMA CoreFrame ==
    ASSUME Core, UNCHANGED <<poolVars, ev, edge, client>> PROVE Core'
BY DEF Core, StateType, PoolConsistent, ClientConnection, Quiet, poolVars

\* epoll_wait reports registered connections only, and those are open.
LEMMA ReportsOpen ==
    ASSUME Core, NEW c \in Conn, NEW m \in Reports(c), m # {}
    PROVE  fd[c]
BY DEF Core, Quiet, Reports

\* A closed connection is not dispatched, and neither is the resolver's write half.
LEMMA DispatchOpen ==
    ASSUME Core, NEW c \in Conn
    PROVE  /\ CallsRead(c) => fd[c]
           /\ CallsWrite(c) => fd[c] /\ c # dns_conn
           /\ ev[c].read.timer_set \/ ev[c].write.timer_set => fd[c] /\ c # dns_conn
BY DEF Core, Quiet, CallsRead, CallsWrite

\* A handler called for an open connection keeps Core, and changes the hands of no other slot.
LEMMA HandlerCore ==
    ASSUME Core, NEW c \in Conn \ {dns_conn}, fd[c], NEW x \in EventState,
           ReadHandler(c, x) \/ WriteHandler(c, x)
    PROVE  /\ Core'
           /\ fd'[c] => data'[c] = data[c]
           /\ \A d \in Conn \ {c} : fd'[d] = fd[d] /\ data'[d] = data[d]
<1>1. Served(c)
  BY OpenIsServed
<1>2. Kept(c) \/ GivenBack(c)
  BY <1>1, ReadHandlerEffect, WriteHandlerEffect
<1>3. CASE Kept(c)
  BY <1>3, KeptCore
<1>4. CASE GivenBack(c)
  BY <1>4, GivenBackCore
<1> QED BY <1>2, <1>3, <1>4

\* The event a handler is called with, after event_process or event_expire_timers set its flags
LEMMA FlagsType ==
    ASSUME NEW x \in EventState, NEW b \in BOOLEAN
    PROVE  /\ [x EXCEPT !.read.pending_eof = x.read.pending_eof \/ b] \in EventState
           /\ [x EXCEPT !.read.timer_set = FALSE, !.read.timedout = TRUE] \in EventState
           /\ [x EXCEPT !.write.timer_set = FALSE, !.write.timedout = TRUE] \in EventState
BY DEF EventState, Event

\* Steps of the loop that call no handler
LEMMA ControlInv ==
    ASSUME Inv,
           \/ Sigint \/ Quit \/ NoPop \/ DnsRead \/ DnsDone \/ SkipWrite \/ BatchDone
           \/ TimersDone \/ Exited \/ UNCHANGED vars
           \/ \E c \in Conn : SkipRead(c)
    PROVE  Inv'
<1> USE InvParts DEF poolVars
<1>1. UNCHANGED <<poolVars, ev, edge, client>>
  BY DEF Sigint, Quit, NoPop, DnsRead, DnsDone, SkipWrite, BatchDone, TimersDone, Exited,
         SkipRead, vars
<1>2. Core'
  BY <1>1, CoreFrame
<1>3. CASE Sigint \/ Quit \/ NoPop \/ BatchDone \/ TimersDone \/ Exited \/ UNCHANGED vars
  <2>1. LoopType'
    BY <1>3 DEF LoopType, Sigint, Quit, NoPop, BatchDone, TimersDone, Exited, vars
  <2>2. NoStaleDispatch' /\ Phase'
    BY <1>1, <1>3 DEF NoStaleDispatch, Phase, Sigint, Quit, NoPop, BatchDone, TimersDone, Exited, vars
  <2> QED BY <1>2, <2>1, <2>2
<1>4. CASE DnsRead \/ DnsDone \/ \E c \in Conn : SkipRead(c)
  <2> dns_conn \in Conn
    BY PoolAssumption DEF Conn, dns_conn
  <2>1. LoopType'
    BY <1>4, ClientAssumption DEF LoopType, DnsRead, DnsDone, SkipRead, NextEntry
  <2>2. NoStaleDispatch'
    BY <1>1, <1>4, ClientAssumption DEF NoStaleDispatch, LoopType, DnsRead, DnsDone, SkipRead, NextEntry
  <2>3. Phase'
    BY <1>4 DEF Phase, DnsRead, DnsDone, SkipRead, NextEntry
  <2> QED BY <1>2, <2>1, <2>2, <2>3
<1>5. CASE SkipWrite
  <2>1. LoopType'
    BY <1>5 DEF LoopType, SkipWrite, EntryDone
  <2>2. NoStaleDispatch' /\ Phase'
    BY <1>1, <1>5, <2>1 DEF LoopType, NoStaleDispatch, Phase, SkipWrite, EntryDone
  <2> QED BY <1>2, <2>1, <2>2
<1> QED BY <1>3, <1>4, <1>5

\* epoll_wait records the owner of every connection it reports.
LEMMA EpollWaitInv == ASSUME Inv, epoll_wait PROVE Inv'
<1> USE InvParts
<1>1. PICK r \in [Conn -> SUBSET {"IN", "OUT", "RDHUP", "ERR"}] :
          /\ \A c \in Conn : r[c] \in Reports(c)
          /\ revents' = r
          /\ evOwner' = [c \in Conn |-> IF r[c] = {} THEN NULL ELSE data[c]]
          /\ edge' = [c \in Conn |-> edge[c] /\ r[c] = {}]
  BY DEF epoll_wait
<1>2. pc = "wait" /\ pc' = "batch" /\ UNCHANGED <<cur, crawler_quit, poolVars, ev, client>>
  BY DEF epoll_wait
<1>3. Core'
  BY <1>1, <1>2 DEF Core, StateType, PoolConsistent, ClientConnection, Quiet, poolVars
<1>4. LoopType'
  BY <1>1, <1>2 DEF LoopType, Core, StateType
<1>5. cur' = NULL
  BY <1>2 DEF LoopType
<1>6. NoStaleDispatch'
  BY <1>1, <1>2, <1>5, ReportsOpen DEF NoStaleDispatch, poolVars
<1>7. Phase'
  BY <1>2 DEF Phase
<1> QED BY <1>3, <1>4, <1>6, <1>7

\* A client made by the loop or by a DNS answer in the middle of a batch takes a closed slot,
\* which no entry still to be dispatched names.
LEMMA CreateInv ==
    ASSUME Inv, NEW u \in Client, PopUrl(u) \/ DnsAnswer(u) \/ DnsTimeout(u) PROVE Inv'
<1> USE InvParts
<1>1. client[u].life # "live"
  BY DEF PopUrl, DnsAnswer, DnsTimeout
<1>2. CASE /\ PopUrl(u)
           /\ client' = [client EXCEPT ![u].life = "resolving"]
           /\ UNCHANGED <<poolVars, ev, edge>>
  <2>1. [client[u] EXCEPT !.life = "resolving"] \in ClientState
          /\ [client[u] EXCEPT !.life = "resolving"].life = "resolving"
          /\ [client[u] EXCEPT !.life = "resolving"].connection = client[u].connection
    BY DEF Core, StateType, ClientState
  <2>2. Core'
    BY <1>1, <1>2, <2>1 DEF Core, StateType, PoolConsistent, ClientConnection, Quiet, poolVars
  <2>3. LoopType' /\ NoStaleDispatch' /\ Phase'
    BY <1>2 DEF PopUrl, LoopType, NoStaleDispatch, Phase, poolVars
  <2> QED BY <2>2, <2>3
<1>3. CASE http_client_create(u)
  <2>1. Core' /\ \A d \in Conn : fd[d] => fd'[d] /\ data'[d] = data[d]
    BY <1>1, <1>3, CreateCore
  <2>2. LoopType' /\ Phase'
    BY DEF PopUrl, DnsAnswer, DnsTimeout, TimerPhase, LoopType, Phase, loopVars
  <2>3. NoStaleDispatch'
    <3>1. CASE PopUrl(u) \/ DnsTimeout(u)
      BY <3>1 DEF PopUrl, DnsTimeout, TimerPhase, LoopType, Phase, loopVars, NoStaleDispatch
    <3>2. CASE DnsAnswer(u)
      <4>1. cur = dns_conn /\ fd[dns_conn] /\ dns_conn \in Conn /\ UNCHANGED loopVars
        BY <3>2, PoolAssumption DEF DnsAnswer, Phase, Core, ClientConnection, Conn, dns_conn
      <4> QED BY <2>1, <4>1 DEF NoStaleDispatch, loopVars
    <3> QED BY <3>1, <3>2
  <2> QED BY <2>1, <2>2, <2>3
<1> QED BY <1>2, <1>3 DEF PopUrl, DnsAnswer, DnsTimeout, http_client_create

\* The handler of the current entry closes at most its own connection, so the entries still to
\* come are as fresh as they were.
LEMMA HttpReadInv == ASSUME Inv, NEW c \in Conn, HttpRead(c) PROVE Inv'
<1> USE InvParts
<1>1. c # dns_conn /\ pc = "batch" /\ pc' = "write" /\ cur' = c /\ revents[c] # {}
        /\ UNCHANGED <<revents, evOwner, crawler_quit>> /\ CallsRead(c)
  BY DEF HttpRead, NextEntry
<1>2. fd[c] /\ cur = NULL /\ c # NULL
  BY <1>1, DispatchOpen, ClientAssumption DEF LoopType
<1> DEFINE x == [ev[c] EXCEPT !.read.pending_eof = @ \/ "RDHUP" \in Flags(c)]
<1>3. x \in EventState /\ ReadHandler(c, x)
  BY FlagsType DEF Core, StateType, HttpRead
<1> HIDE DEF x
<1>4. /\ Core'
      /\ fd'[c] => data'[c] = data[c]
      /\ \A d \in Conn \ {c} : fd'[d] = fd[d] /\ data'[d] = data[d]
  BY <1>1, <1>2, <1>3, HandlerCore
<1>5. LoopType' /\ Phase'
  BY <1>1, <1>2 DEF LoopType, Phase
<1>6. NoStaleDispatch'
  BY <1>1, <1>2, <1>4, ClientAssumption DEF NoStaleDispatch
<1> QED BY <1>4, <1>5, <1>6

\* The same of the write half of the current entry.
LEMMA HttpWriteInv == ASSUME Inv, HttpWrite PROVE Inv'
<1> USE InvParts
<1>1. pc = "write" /\ CallsWrite(cur) /\ WriteHandler(cur, ev[cur]) /\ EntryDone
  BY DEF HttpWrite
<1>2. cur \in Conn
  BY <1>1 DEF LoopType
<1>3. fd[cur] /\ cur # dns_conn /\ ev[cur] \in EventState
  BY <1>1, <1>2, DispatchOpen DEF Core, StateType
<1>4. Core' /\ \A d \in Conn \ {cur} : fd'[d] = fd[d] /\ data'[d] = data[d]
  BY <1>1, <1>2, <1>3, HandlerCore
<1>5. LoopType' /\ Phase'
  BY <1>1, <1>2 DEF LoopType, Phase, EntryDone
<1>6. NoStaleDispatch'
  BY <1>1, <1>2, <1>4 DEF NoStaleDispatch, LoopType, EntryDone
<1> QED BY <1>4, <1>5, <1>6

\* Timers expire after the batch, when no entry is left that a closed connection could belong to.
LEMMA ExpireInv == ASSUME Inv, NEW c \in Conn, ExpireRead(c) \/ ExpireWrite(c) PROVE Inv'
<1> USE InvParts
<1>1. pc = "timers" /\ UNCHANGED loopVars /\ (ev[c].read.timer_set \/ ev[c].write.timer_set)
  BY DEF ExpireRead, ExpireWrite, TimerPhase
<1>2. fd[c] /\ c # dns_conn
  BY <1>1, DispatchOpen
<1>3. Core'
  <2>1. ev[c] \in EventState
    BY DEF Core, StateType
  <2>2. CASE ExpireRead(c)
    BY <1>2, <2>1, <2>2, FlagsType, HandlerCore DEF ExpireRead
  <2>3. CASE ExpireWrite(c)
    BY <1>2, <2>1, <2>3, FlagsType, HandlerCore DEF ExpireWrite
  <2> QED BY <2>2, <2>3
<1>4. LoopType' /\ Phase' /\ NoStaleDispatch'
  BY <1>1 DEF LoopType, Phase, NoStaleDispatch, loopVars
<1> QED BY <1>3, <1>4

\* Every step of the worker keeps Inv.
LEMMA NextInv == ASSUME Inv, [Next]_vars PROVE Inv'
BY ControlInv, EpollWaitInv, CreateInv, HttpReadInv, HttpWriteInv, ExpireInv
   DEF Next, LoopStep

\* A step leaves an open slot with its client: only get_connection gives a slot away, and it
\* takes closed ones.
LEMMA HandsStep ==
    ASSUME Inv, Next PROVE \A d \in Conn : fd[d] /\ fd'[d] => data'[d] = data[d]
<1> USE InvParts DEF poolVars
<1>1. CASE UNCHANGED poolVars
  BY <1>1
<1>2. ASSUME NEW u \in Client, PopUrl(u) \/ DnsAnswer(u) \/ DnsTimeout(u), ~UNCHANGED poolVars
      PROVE  \A d \in Conn : fd[d] /\ fd'[d] => data'[d] = data[d]
  <2>1. client[u].life # "live" /\ http_client_create(u)
    BY <1>2 DEF PopUrl, DnsAnswer, DnsTimeout, Drop
  <2> QED BY <2>1, CreateCore
<1>3. ASSUME NEW c \in Conn, HttpRead(c) \/ ExpireRead(c) \/ ExpireWrite(c)
      PROVE  \A d \in Conn : fd[d] /\ fd'[d] => data'[d] = data[d]
  <2>1. fd[c] /\ c # dns_conn
    BY <1>3, DispatchOpen DEF HttpRead, NextEntry, ExpireRead, ExpireWrite
  <2>2. \E x \in EventState : ReadHandler(c, x) \/ WriteHandler(c, x)
    <3>1. ev[c] \in EventState
      BY DEF Core, StateType
    <3> QED BY <1>3, <3>1, FlagsType DEF HttpRead, ExpireRead, ExpireWrite
  <2> QED BY <2>1, <2>2, HandlerCore
<1>4. CASE HttpWrite
  <2>1. cur \in Conn /\ CallsWrite(cur) /\ WriteHandler(cur, ev[cur])
    BY <1>4 DEF HttpWrite, LoopType
  <2>2. fd[cur] /\ cur # dns_conn /\ ev[cur] \in EventState
    BY <2>1, DispatchOpen DEF Core, StateType
  <2> QED BY <2>1, <2>2, HandlerCore
<1> QED
  BY <1>1, <1>2, <1>3, <1>4
  DEF Next, LoopStep, Sigint, Quit, NoPop, epoll_wait, DnsRead, DnsDone, SkipWrite, BatchDone,
      TimersDone, Exited, SkipRead, vars

-----------------------------------------------------------------------------
(* Theorems *)

\* Inv is an invariant of the worker, for every pool and every set of clients.
THEOREM Invariance == Spec => []Inv
BY InitInv, NextInv, PTL DEF Spec

\* Type correctness of the whole worker.
THEOREM TypeCorrect == Spec => []TypeOK
<1>1. Inv => TypeOK
  BY DEF Inv
<1> QED BY <1>1, Invariance, PTL

\* The free list is exact at all times, although c->data is both the link of a free slot and the
\* client of a used one, and clients are made in the middle of a batch.
THEOREM PoolAlwaysConsistent == Spec => []PoolConsistent
<1>1. Inv => PoolConsistent
  BY DEF Inv
<1> QED BY <1>1, Invariance, PTL

\* No handler runs for a freed client, and no client leaks its connection.
THEOREM ClientsOwnConnections == Spec => []ClientConnection
<1>1. Inv => ClientConnection
  BY DEF Inv
<1> QED BY <1>1, Invariance, PTL

\* No entry of event_list is dispatched to a slot that changed hands since epoll_wait, although
\* the entries carry no instance bit.
THEOREM NeverStale == Spec => []NoStaleDispatch
<1>1. Inv => NoStaleDispatch
  BY DEF Inv
<1> QED BY <1>1, Invariance, PTL

\* A slot never passes to another client while it is open, whatever the order of events.
THEOREM SlotsKeepClients == Spec => SlotKeepsClient
<1>1. Inv /\ [Next]_vars => [\A c \in Conn : fd[c] /\ fd'[c] => data'[c] = data[c]]_vars
  BY HandsStep
<1> QED BY <1>1, Invariance, PTL DEF Spec, SlotKeepsClient

=============================================================================
