------------------------------- MODULE EventLoop -------------------------------
(***************************************************************************)
(* One worker process: the connection pool (connection.c), the epoll event *)
(* loop (event.c), the timers (event_timer.c) and the http client's event  *)
(* handlers (http_client.c), driven by work_process_cycle                  *)
(* (process_cycle.c).  The worker is single-threaded, so one action is one *)
(* handler call; what makes it hard is that epoll_wait hands out a BATCH of *)
(* entries which carry bare connection pointers, and that the handlers of  *)
(* that batch close connections and reuse the slots of closed ones.        *)
(*                                                                         *)
(* Abstracted: bytes (a recv or a send is its outcome), addresses, time (a *)
(* set timer may expire in any timer phase), the DNS protocol (see         *)
(* DnsResolver) and the redis queue (see CrawlQueue).                      *)
(***************************************************************************)
EXTENDS Naturals, FiniteSets

CONSTANTS
    N,              \* slots of the pool: connection_init(N)
    Client,         \* one per URL of this worker's list and the http_client_t made for it
    Https,          \* the clients whose URL has the schema https (ssl_flag)
    Renegotiates,   \* https clients whose server may start a TLS renegotiation
    Threshold,      \* connection_threshold of settings.lua
    NULL

Conn == 0..(N-1)
dns_conn == 0       \* dns_init takes the first slot of the pool and keeps it

ASSUME PoolAssumption == N \in Nat /\ N > 1 /\ Threshold \in Nat
ASSUME ClientAssumption ==
    /\ Client \cap Conn = {} /\ NULL \notin Client /\ NULL \notin Conn
    /\ Https \subseteq Client /\ Renegotiates \subseteq Https

VARIABLES
    pc,                 \* where work_process_cycle is
    cur,                \* the entry of event_list being dispatched
    revents,            \* [Conn -> flags]: the entries of event_list not yet dispatched
    evOwner,            \* history: c->data when epoll_wait reported c
    crawler_quit,
    free_connections,   \* head of the free list
    free_connection_n,
    depth,              \* history: 0 if in use, else the slot's height in the free list
    fd,                 \* [Conn -> BOOLEAN]: c->fd # -1
    data,               \* c->data: next free slot or client, as in the code
    ev,                 \* [Conn -> EventState]: c->read, c->write, c->ssl
    edge,               \* kernel: an EPOLLOUT edge is due because connect() succeeded at once
    client

loopVars == <<pc, cur, revents, evOwner, crawler_quit>>
poolVars == <<free_connections, free_connection_n, depth, fd, data>>
vars == <<pc, cur, revents, evOwner, crawler_quit, free_connections,
          free_connection_n, depth, fd, data, ev, edge, client>>

-----------------------------------------------------------------------------
Handler == {"NULL", "dns_process_event", "http_write_event_process",
            "http_read_event_process", "ssl_handshake_handler", "ssl_write_handler"}

\* event_t, without the fields no decision of the code reads
Event == [active: BOOLEAN, timer_set: BOOLEAN, timedout: BOOLEAN,
          pending_eof: BOOLEAN, handler: Handler]

\* ssl: c->ssl is NULL, allocated, or handshaked; saved: saved_write_handler;
\* interest: what the kernel's epoll set holds for the fd ({} = not registered).
EventState == [read: Event, write: Event,
               ssl: {"none", "created", "handshaked"}, saved: Handler,
               interest: SUBSET {"IN", "OUT"}]

\* What the memset of get_connection leaves
Cleared == [active |-> FALSE, timer_set |-> FALSE, timedout |-> FALSE,
            pending_eof |-> FALSE, handler |-> "NULL"]
Memset == [read |-> Cleared, write |-> Cleared, ssl |-> "none",
           saved |-> "NULL", interest |-> {}]

\* http_client_s.status
HTTP_CONN_DONE == 0
HTTP_REQ_DONE  == 1
HTTP_HEAD_DONE == 2
HTTP_HTML_DONE == 3

\* life: in the list; waiting for DNS; allocated; or gone, with the page parsed or not.
\* sent: the whole request is out (req->pos = req->last); head: hc->status = HEAD_DONE.
ClientState == [life: {"queued", "resolving", "live", "parsed", "failed"},
                status: 0..3, connection: Conn \cup {NULL},
                sent: BOOLEAN, head: BOOLEAN]

\* A calloc'ed http_client_t, or one that is not allocated
Blank(life) == [life |-> life, status |-> HTTP_CONN_DONE, connection |-> NULL,
                sent |-> FALSE, head |-> FALSE]

-----------------------------------------------------------------------------
(* event.c: event_add and event_del against the kernel's epoll set *)

Flag(side) == IF side = "read" THEN "IN" ELSE "OUT"
Other(x, side) == IF side = "read" THEN x.write ELSE x.read
OtherFlag(side) == IF side = "read" THEN "OUT" ELSE "IN"

SetActive(x, side, b) ==
    IF side = "read" THEN [x EXCEPT !.read.active = b] ELSE [x EXCEPT !.write.active = b]

\* The kernel refuses ADD of a registered fd (EEXIST) and MOD or DEL of an unregistered one (ENOENT)
EpollCtlOk(op, interest) == (op = "ADD") <=> (interest = {})

\* The registration event_add asks for: op and mask come from the OTHER event's active flag
AddOp(x, side) == IF Other(x, side).active THEN "MOD" ELSE "ADD"
event_add(x, side) ==
    [SetActive(x, side, TRUE) EXCEPT
        !.interest = {Flag(side)} \cup (IF Other(x, side).active THEN {OtherFlag(side)} ELSE {})]

\* Mutant of event_del: always EPOLL_CTL_DEL
DelAlways(x, side) == [SetActive(x, side, FALSE) EXCEPT !.interest = {}]

DelOp(x, side) == IF Other(x, side).active THEN "MOD" ELSE "DEL"
event_del(x, side) ==
    [SetActive(x, side, FALSE) EXCEPT
        !.interest = IF Other(x, side).active THEN {OtherFlag(side)} ELSE {}]

-----------------------------------------------------------------------------
(* connection.c: the pool *)

\* get_connection: pop the head of the free list (the caller checks it is not NULL)
get_connection(c) ==
    /\ c = free_connections
    /\ free_connections' = data[c]
    /\ free_connection_n' = free_connection_n - 1
    /\ depth' = [depth EXCEPT ![c] = 0]
    /\ fd' = [fd EXCEPT ![c] = TRUE]

\* Mutant of Closed: the write timer stays in the tree
ClosedKeepsWriteTimer(x) ==
    [x EXCEPT !.read.active = FALSE, !.read.timer_set = FALSE,
              !.write.active = FALSE, !.ssl = "none", !.interest = {}]

\* What close_connection leaves in the slot: handlers, timedout and pending_eof stay as they
\* were (which of them a failing handler had already set is not kept apart)
Closed(x) == [x EXCEPT !.read.active = FALSE, !.read.timer_set = FALSE,
                       !.write.active = FALSE, !.write.timer_set = FALSE,
                       !.ssl = "none", !.interest = {}]

\* Mutant of close_connection: free_connection forgets c->data = free_connections
CloseWithoutLink(c, x) ==
    /\ ev' = [ev EXCEPT ![c] = Closed(x)]
    /\ free_connections' = c
    /\ free_connection_n' = free_connection_n + 1
    /\ depth' = [depth EXCEPT ![c] = free_connection_n + 1]
    /\ fd' = [fd EXCEPT ![c] = FALSE]
    /\ edge' = [edge EXCEPT ![c] = FALSE]
    /\ UNCHANGED data

\* close_connection and free_connection; x is what the caller's event holds in ev[c]
close_connection(c, x) ==
    /\ ev' = [ev EXCEPT ![c] = Closed(x)]
    /\ data' = [data EXCEPT ![c] = free_connections]
    /\ free_connections' = c
    /\ free_connection_n' = free_connection_n + 1
    /\ depth' = [depth EXCEPT ![c] = free_connection_n + 1]
    /\ fd' = [fd EXCEPT ![c] = FALSE]
    /\ edge' = [edge EXCEPT ![c] = FALSE]

\* Mutant of Retrieve: the client is freed and its connection left open
RetrieveLeavesConnection(c, x, status) ==
    /\ ev' = [ev EXCEPT ![c] = x]
    /\ client' = [client EXCEPT ![data[c]] = Blank("failed")]
    /\ UNCHANGED <<poolVars, edge>>

\* The client's handler (parse_html), which always ends in http_client_retrieve:
\* the page counts as parsed only from HTTP_HTML_DONE, and even then gumbo may fail.
Retrieve(c, x, status) ==
    LET u == data[c] IN
    /\ close_connection(c, x)
    /\ \E life \in IF status = HTTP_HTML_DONE THEN {"parsed", "failed"} ELSE {"failed"} :
          client' = [client EXCEPT ![u] = Blank(life)]

Fail(c, x) == Retrieve(c, x, client[data[c]].status)

\* The handler returns with the connection still open
Keep(c, x, cl) ==
    /\ ev' = [ev EXCEPT ![c] = x]
    /\ client' = [client EXCEPT ![data[c]] = cl]
    /\ UNCHANGED <<poolVars, edge>>

-----------------------------------------------------------------------------
(* http_client.c: creating a client *)

Drop(u) == /\ client' = [client EXCEPT ![u] = Blank("failed")]
           /\ UNCHANGED <<poolVars, ev, edge>>

\* Mutant of FirstHandler: the schema is not looked at
FirstHandlerPlain(u) == "http_write_event_process"

FirstHandler(u) == IF u \in Https THEN "ssl_handshake_handler" ELSE "http_write_event_process"

\* The slot once http_conn has registered the write event
Connecting(u) == event_add([Memset EXCEPT !.write.handler = FirstHandler(u)], "write")

\* Mutant of http_conn: the memset of get_connection is left out, and the flags of the last use stay
HttpConnKeepsFlags(u) ==
    \E c \in Conn, immediate \in BOOLEAN :
       /\ get_connection(c)
       /\ data' = [data EXCEPT ![c] = u]
       /\ ev' = [ev EXCEPT ![c] = [Connecting(u) EXCEPT !.write.timer_set = ~immediate,
                                      !.read.timedout = ev[c].read.timedout,
                                      !.write.timedout = ev[c].write.timedout,
                                      !.read.pending_eof = ev[c].read.pending_eof]]
       /\ edge' = [edge EXCEPT ![c] = immediate]
       /\ client' = [client EXCEPT ![u] = [Blank("live") EXCEPT !.connection = c]]

\* connect() is under way (EINPROGRESS: a timer is set) or succeeded at once (no timer)
http_conn(u) ==
    \E c \in Conn, immediate \in BOOLEAN :
       /\ get_connection(c)
       /\ data' = [data EXCEPT ![c] = u]
       /\ ev' = [ev EXCEPT ![c] = [Connecting(u) EXCEPT !.write.timer_set = ~immediate]]
       /\ edge' = [edge EXCEPT ![c] = immediate]
       /\ client' = [client EXCEPT ![u] = [Blank("live") EXCEPT !.connection = c]]

\* nonblocking(), event_add() or connect() fails: the slot goes back to the head of the list
HttpConnFails(u) ==
    \E c \in Conn, x \in {Memset, Connecting(u)} :
       /\ c = free_connections
       /\ ev' = [ev EXCEPT ![c] = Closed(x)]
       /\ client' = [client EXCEPT ![u] = Blank("failed")]
       /\ UNCHANGED <<poolVars, edge>>

\* Drop: calloc() or socket() fails, or the pool is empty
http_client_create(u) == http_conn(u) \/ HttpConnFails(u) \/ Drop(u)

-----------------------------------------------------------------------------
(* http_client.c and connection.c: the event handlers *)

\* What http_process_response can make of newly received bytes (an error is Fail).
\* Once the head is parsed a second pass over it (after a renegotiation) never completes.
ParseOutcomes(cl) ==
    {cl} \cup
    (IF cl.status = HTTP_REQ_DONE /\ ~cl.head
       THEN {[cl EXCEPT !.status = s, !.head = TRUE] : s \in {HTTP_HEAD_DONE, HTTP_HTML_DONE}} ELSE {}) \cup
    (IF cl.status = HTTP_HEAD_DONE THEN {[cl EXCEPT !.status = HTTP_HTML_DONE]} ELSE {})

\* Bytes arrive: the read timer is set again, and ssl_recv restores a saved write handler
Received(x) ==
    [x EXCEPT !.read.timer_set = TRUE,
              !.write.handler = IF x.saved # "NULL" THEN x.saved ELSE x.write.handler,
              !.saved = "NULL"]

\* SSL_read wants to write: ssl_handle_recv registers the write event and borrows its handler
WantWrite(x) ==
    LET y == IF x.write.active THEN x ELSE event_add(x, "write")
    IN  IF y.saved # "NULL" THEN y
        ELSE [y EXCEPT !.saved = y.write.handler, !.write.handler = "ssl_write_handler"]

http_read_event_process(c, x) ==
    \/ Fail(c, x)                      \* timed out, or an allocation, recv or parse error
    \/ /\ ~x.read.timedout
       /\ \E bytes \in BOOLEAN, wantWrite \in IF data[c] \in Renegotiates THEN BOOLEAN ELSE {FALSE} :
          LET x1 == IF bytes THEN Received(x) ELSE x
              y  == IF wantWrite THEN WantWrite(x1) ELSE x1
          IN  /\ wantWrite /\ ~x.write.active => EpollCtlOk(AddOp(x, "write"), x.interest)
              /\ \E cl \in IF bytes THEN ParseOutcomes(client[data[c]]) ELSE {client[data[c]]} :
                    IF cl.status = HTTP_HTML_DONE \/ y.read.pending_eof
                      THEN Retrieve(c, y, cl.status)
                      ELSE Keep(c, y, cl)

\* Mutant of TransEnd: reading starts without a timer
TransEndNoTimer(c, x) ==
    LET x1 == IF x.write.active THEN event_del([x EXCEPT !.write.timer_set = FALSE], "write")
                                ELSE [x EXCEPT !.write.timer_set = FALSE]
        x2 == [x1 EXCEPT !.read.handler = "http_read_event_process"]
    IN  Keep(c, IF x2.read.active THEN x2 ELSE event_add(x2, "read"),
             [client[data[c]] EXCEPT !.status = HTTP_REQ_DONE, !.sent = TRUE])

\* The request is out: stop writing, start (or go on) reading with a timer
TransEnd(c, x) ==
    LET x1 == IF x.write.active THEN event_del([x EXCEPT !.write.timer_set = FALSE], "write")
                                ELSE [x EXCEPT !.write.timer_set = FALSE]
        x2 == [x1 EXCEPT !.read.handler = "http_read_event_process"]
        x3 == IF x2.read.active THEN x2 ELSE event_add(x2, "read")
    IN  /\ x.write.active => EpollCtlOk(DelOp(x, "write"), x.interest)
        /\ ~x.read.active => EpollCtlOk(AddOp(x2, "read"), x2.interest)
        /\ Keep(c, [x3 EXCEPT !.read.timer_set = TRUE],
                [client[data[c]] EXCEPT !.status = HTTP_REQ_DONE, !.sent = TRUE])

\* A send that is refused, partial or EAGAIN falls through to failed:, as do epoll errors
http_write_event_process(c, x) ==
    \/ Fail(c, x)
    \/ ~x.write.timedout /\ TransEnd(c, x)

\* ssl_create: both handlers become ssl_handshake_handler, both events are registered
ssl_create(x) ==
    LET x1 == [x EXCEPT !.read.handler = "ssl_handshake_handler",
                        !.write.handler = "ssl_handshake_handler", !.ssl = "created"]
        x2 == IF x1.write.active THEN x1 ELSE event_add(x1, "write")
    IN  IF x2.read.active THEN x2 ELSE event_add(x2, "read")

\* timedout: of the event this handler was called for
ssl_handshake_handler(c, x, timedout) ==
    \/ Fail(c, x)
    \/ /\ ~timedout
       /\ LET y == IF x.ssl = "none" THEN ssl_create(x) ELSE x
          IN  \E done \in IF y.ssl = "handshaked" THEN {TRUE} ELSE BOOLEAN :
                 Keep(c, IF done THEN [y EXCEPT !.ssl = "handshaked", !.write.timer_set = TRUE,
                                                !.write.handler = "http_write_event_process"]
                                 ELSE [y EXCEPT !.write.timer_set = TRUE],
                      client[data[c]])

\* rev->handler(rev)
ReadHandler(c, x) ==
    \/ /\ x.read.handler = "http_read_event_process"
       /\ http_read_event_process(c, x)
    \/ /\ x.read.handler = "ssl_handshake_handler"
       /\ ssl_handshake_handler(c, x, x.read.timedout)

\* wev->handler(wev); ssl_write_handler passes on to the read handler
WriteHandler(c, x) ==
    \/ /\ x.write.handler = "http_write_event_process"
       /\ http_write_event_process(c, x)
    \/ /\ x.write.handler = "ssl_handshake_handler"
       /\ ssl_handshake_handler(c, x, x.write.timedout)
    \/ /\ x.write.handler = "ssl_write_handler"
       /\ ReadHandler(c, x)

-----------------------------------------------------------------------------
(* process_cycle.c: the loop of work_process_cycle *)

\* After dns_init: slot 0 is the resolver's, the others are on the free list
Init ==
    /\ pc = "top" /\ cur = NULL /\ crawler_quit = FALSE
    /\ revents = [c \in Conn |-> {}]
    /\ evOwner = [c \in Conn |-> NULL]
    /\ free_connections = 1 /\ free_connection_n = N - 1
    /\ depth = [c \in Conn |-> IF c = dns_conn THEN 0 ELSE N - c]
    /\ fd = [c \in Conn |-> c = dns_conn]
    /\ data = [c \in Conn |-> IF c = dns_conn \/ c = N - 1 THEN NULL ELSE c + 1]
    /\ ev = [c \in Conn |-> IF c = dns_conn
                THEN event_add([Memset EXCEPT !.read.handler = "dns_process_event"], "read")
                ELSE Memset]
    /\ edge = [c \in Conn |-> FALSE]
    /\ client = [u \in Client |-> Blank("queued")]

\* SIGINT only sets the flag; the loop looks at it once a round
Sigint ==
    /\ pc # "exit" /\ ~crawler_quit
    /\ crawler_quit' = TRUE
    /\ UNCHANGED <<pc, cur, revents, evOwner, poolVars, ev, edge, client>>

Quit ==
    /\ pc = "top" /\ crawler_quit
    /\ pc' = "exit"
    /\ UNCHANGED <<cur, revents, evOwner, crawler_quit, poolVars, ev, edge, client>>

\* The admission check sees the free connections and not the names being resolved
Admit == free_connection_n > Threshold

\* dns_query: the host is cached (the client is made at once) or a query is sent;
\* a malformed URL or a failing query drops the URL
PopUrl(u) ==
    /\ pc = "top" /\ ~crawler_quit /\ Admit
    /\ client[u].life = "queued"
    /\ \/ http_client_create(u)
       \/ /\ client' = [client EXCEPT ![u].life = "resolving"]
          /\ UNCHANGED <<poolVars, ev, edge>>
    /\ pc' = "wait"
    /\ UNCHANGED <<cur, revents, evOwner, crawler_quit>>

\* Mutant of NoPop: the round begins without a look at crawler_quit
NoPopIgnoresQuit ==
    /\ pc = "top"
    /\ pc' = "wait"
    /\ UNCHANGED <<cur, revents, evOwner, crawler_quit, poolVars, ev, edge, client>>

\* Over the threshold, the list is empty, or redis fails
NoPop ==
    /\ pc = "top" /\ ~crawler_quit
    /\ pc' = "wait"
    /\ UNCHANGED <<cur, revents, evOwner, crawler_quit, poolVars, ev, edge, client>>

\* What epoll_wait may report for c: RDHUP comes with IN; an error may come alone; a due
\* edge is reported with whatever is reported
Reports(c) ==
    LET I == ev[c].interest IN
    IF I = {} THEN {{}}
    ELSE IF c = dns_conn THEN {{}, {"IN"}}
    ELSE {m \in SUBSET (I \cup (IF "IN" \in I THEN {"RDHUP"} ELSE {})) :
             /\ "RDHUP" \in m => "IN" \in m
             /\ edge[c] /\ m # {} => "OUT" \in m} \cup (IF edge[c] THEN {} ELSE {{"ERR"}})

\* event_process: no entries at all on a timeout or EINTR
epoll_wait ==
    /\ pc = "wait"
    /\ \E r \in [Conn -> SUBSET {"IN", "OUT", "RDHUP", "ERR"}] :
          /\ \A c \in Conn : r[c] \in Reports(c)
          /\ revents' = r
          /\ evOwner' = [c \in Conn |-> IF r[c] = {} THEN NULL ELSE data[c]]
          /\ edge' = [c \in Conn |-> edge[c] /\ r[c] = {}]
    /\ pc' = "batch"
    /\ UNCHANGED <<cur, crawler_quit, poolVars, ev, client>>

\* "if the error events were returned without EPOLLIN or EPOLLOUT, then add these flags"
Flags(c) == IF revents[c] = {"ERR"} THEN {"IN", "OUT"} ELSE revents[c]

CallsRead(c) == "IN" \in Flags(c) /\ ev[c].read.active
CallsWrite(c) == "OUT" \in Flags(c) /\ ev[c].write.active

\* The next entry of event_list, the kernel's order being arbitrary
NextEntry(c) ==
    /\ pc = "batch" /\ revents[c] # {}
    /\ cur' = c
    /\ UNCHANGED <<revents, evOwner, crawler_quit>>

\* No read half: also the entry of a connection whose fd is -1, which has no active event
SkipRead(c) ==
    /\ NextEntry(c) /\ ~CallsRead(c)
    /\ pc' = "write"
    /\ UNCHANGED <<poolVars, ev, edge, client>>

HttpRead(c) ==
    /\ c # dns_conn /\ NextEntry(c) /\ CallsRead(c)
    /\ ReadHandler(c, [ev[c] EXCEPT !.read.pending_eof = @ \/ "RDHUP" \in Flags(c)])
    /\ pc' = "write"

DnsRead ==
    /\ NextEntry(dns_conn) /\ CallsRead(dns_conn)
    /\ pc' = "dns"
    /\ UNCHANGED <<poolVars, ev, edge, client>>

\* dns_process_event, one datagram: the answer makes a client in the middle of the batch,
\* or ends the query without one
DnsAnswer(u) ==
    /\ pc = "dns" /\ client[u].life = "resolving"
    /\ http_client_create(u)
    /\ UNCHANGED loopVars

DnsDone ==
    /\ pc = "dns"
    /\ pc' = "write"
    /\ UNCHANGED <<cur, revents, evOwner, crawler_quit, poolVars, ev, edge, client>>

EntryDone ==
    /\ pc' = "batch" /\ cur' = NULL
    /\ revents' = [revents EXCEPT ![cur] = {}]
    /\ evOwner' = [evOwner EXCEPT ![cur] = NULL]
    /\ UNCHANGED crawler_quit

\* The write half is skipped when the read half closed the connection: close_connection
\* cleared wev->active
SkipWrite ==
    /\ pc = "write" /\ ~CallsWrite(cur)
    /\ EntryDone
    /\ UNCHANGED <<poolVars, ev, edge, client>>

HttpWrite ==
    /\ pc = "write" /\ CallsWrite(cur)
    /\ WriteHandler(cur, ev[cur])
    /\ EntryDone

BatchDone ==
    /\ pc = "batch" /\ \A c \in Conn : revents[c] = {}
    /\ pc' = "timers"
    /\ UNCHANGED <<cur, revents, evOwner, crawler_quit, poolVars, ev, edge, client>>

\* Mutant of TimerPhase: timers expire between two entries of the batch
TimersInBatch == pc \in {"timers", "batch"}

\* event_expire_timers runs after the whole batch
TimerPhase == pc = "timers"

ExpireRead(c) ==
    /\ TimerPhase /\ ev[c].read.timer_set
    /\ ReadHandler(c, [ev[c] EXCEPT !.read.timer_set = FALSE, !.read.timedout = TRUE])
    /\ UNCHANGED loopVars

ExpireWrite(c) ==
    /\ TimerPhase /\ ev[c].write.timer_set
    /\ WriteHandler(c, [ev[c] EXCEPT !.write.timer_set = FALSE, !.write.timedout = TRUE])
    /\ UNCHANGED loopVars

\* dns_timeout_handler gives up (a retry changes nothing here)
DnsTimeout(u) ==
    /\ TimerPhase /\ client[u].life = "resolving"
    /\ Drop(u)
    /\ UNCHANGED loopVars

TimersDone ==
    /\ pc = "timers"
    /\ pc' = "top"
    /\ UNCHANGED <<cur, revents, evOwner, crawler_quit, poolVars, ev, edge, client>>

\* The process has exited
Exited == pc = "exit" /\ UNCHANGED vars

LoopStep ==
    \/ Quit \/ NoPop \/ epoll_wait \/ DnsRead \/ DnsDone
    \/ SkipWrite \/ HttpWrite \/ BatchDone \/ TimersDone
    \/ \E u \in Client : PopUrl(u) \/ DnsAnswer(u) \/ DnsTimeout(u)
    \/ \E c \in Conn : SkipRead(c) \/ HttpRead(c) \/ ExpireRead(c) \/ ExpireWrite(c)

Next == LoopStep \/ Sigint \/ Exited

Spec == Init /\ [][Next]_vars

-----------------------------------------------------------------------------
(* Properties *)

\* Every variable holds a value of the C type it stands for; cur is an entry exactly while
\* one is being dispatched.
TypeOK ==
    /\ pc \in {"top", "wait", "batch", "write", "dns", "timers", "exit"}
    /\ cur \in Conn \cup {NULL} /\ (cur # NULL <=> pc \in {"write", "dns"})
    /\ revents \in [Conn -> SUBSET {"IN", "OUT", "RDHUP", "ERR"}]
    /\ evOwner \in [Conn -> Conn \cup Client \cup {NULL}]
    /\ crawler_quit \in BOOLEAN
    /\ free_connections \in Conn \cup {NULL}
    /\ free_connection_n \in Nat
    /\ depth \in [Conn -> Nat]
    /\ fd \in [Conn -> BOOLEAN]
    /\ data \in [Conn -> Conn \cup Client \cup {NULL}]
    /\ ev \in [Conn -> EventState]
    /\ edge \in [Conn -> BOOLEAN]
    /\ client \in [Client -> ClientState]

\* connection.c: following c->data from free_connections visits every closed slot once and no
\* open one, and free_connection_n is the length of that walk and the number of closed slots,
\* although the same field holds the client of a connection in use.
PoolConsistent ==
    /\ \A c \in Conn : /\ fd[c] <=> depth[c] = 0
                       /\ depth[c] <= free_connection_n
                       /\ depth[c] = 1 => data[c] = NULL
                       /\ depth[c] > 1 => data[c] \in Conn /\ depth[data[c]] = depth[c] - 1
    /\ \A c, d \in Conn : depth[c] = depth[d] /\ depth[c] # 0 => c = d
    /\ free_connection_n = Cardinality({c \in Conn : ~fd[c]})
    /\ free_connection_n = 0 => free_connections = NULL
    /\ free_connection_n > 0 => /\ free_connections \in Conn
                                /\ depth[free_connections] = free_connection_n

\* http_conn and http_client_retrieve: an open connection other than the resolver's belongs to
\* one allocated client which points back at it, and every allocated client has one; so a
\* handler never sees a freed client and no connection is left behind by its client.
ClientConnection ==
    /\ fd[dns_conn] /\ data[dns_conn] = NULL
    /\ \A c \in Conn \ {dns_conn} : fd[c] =>
          /\ data[c] \in Client
          /\ client[data[c]].life = "live" /\ client[data[c]].connection = c
    /\ \A u \in Client :
          /\ client[u].life = "live" =>
                /\ client[u].connection \in Conn \ {dns_conn}
                /\ fd[client[u].connection] /\ data[client[u].connection] = u
          /\ client[u].life # "live" => client[u].connection = NULL

\* event_process: the entries of event_list carry bare pointers, with nothing that tells a slot
\* from its next use.  An entry still to be dispatched is for the connection that was reported,
\* and the write half of the current entry is not run for a slot that changed hands.
NoStaleDispatch ==
    /\ \A c \in Conn : revents[c] # {} /\ c # cur => fd[c] /\ data[c] = evOwner[c]
    /\ cur # NULL /\ fd[cur] => data[cur] = evOwner[cur]

\* event_process and event_expire_timers call ev->handler without a check: whenever an event is
\* registered or timed its handler is one that was set for this connection, a timed event's
\* handler is one that looks at timedout, and a closed slot is out of the epoll set and the
\* timer tree.
HandlersValid ==
    \A c \in Conn : LET x == ev[c] IN
       /\ ~fd[c] => ~(x.read.active \/ x.write.active \/ x.read.timer_set \/ x.write.timer_set)
       /\ c # dns_conn =>
             /\ x.read.active => x.read.handler \in {"http_read_event_process", "ssl_handshake_handler"}
             /\ x.write.active => x.write.handler \notin {"NULL", "dns_process_event"}
             /\ x.read.timer_set => x.read.handler = "http_read_event_process"
             /\ x.write.timer_set => x.write.handler \in {"http_write_event_process", "ssl_handshake_handler"}
             /\ fd[c] => (x.saved # "NULL" <=> x.write.handler = "ssl_write_handler")

\* The flags of open connections are of their present use
FlagsClean ==
    \A c \in Conn \ {dns_conn} : fd[c] =>
       /\ ~ev[c].read.timedout /\ ~ev[c].write.timedout
       /\ ev[c].read.pending_eof => ev[c].ssl # "none"

\* close_connection leaves timedout and pending_eof in the slot, and nothing but get_connection ever clears
\* them: no open connection carries a timedout, its own or that of the slot's last use, into a later
\* handler call, and a pending_eof is kept only over a TLS handshake, where the read handler does not look.
\* The variables have their types besides.
FlagsFresh == TypeOK /\ FlagsClean

\* event_add and event_del choose ADD, MOD or DEL from the other event's active flag: the kernel's
\* registration is always what the two flags say, so no call is refused with EEXIST or ENOENT.
InterestMatches ==
    \A c \in Conn : ev[c].interest = (IF ev[c].read.active THEN {"IN"} ELSE {})
                                \cup (IF ev[c].write.active THEN {"OUT"} ELSE {})

\* http_client.c: an open connection is never forgotten: it has a timer, or the edge of its
\* immediate connect() is still due or about to be dispatched.
HasWakeup ==
    \A c \in Conn \ {dns_conn} : fd[c] =>
       \/ ev[c].read.timer_set \/ ev[c].write.timer_set
       \/ edge[c] \/ "OUT" \in revents[c]

\* ssl_handshake_handler: the request of an https client is only ever sent through ssl_send.
TlsBeforeRequest ==
    \A c \in Conn \ {dns_conn} : fd[c] /\ data[c] \in Https =>
       (client[data[c]].sent \/ ev[c].write.handler = "http_write_event_process"
          => ev[c].ssl = "handshaked")

\* get_connection: a slot never passes to another client while it is open.
SlotKeepsClient ==
    [][\A c \in Conn : fd[c] /\ fd'[c] => data'[c] = data[c]]_vars
=============================================================================
