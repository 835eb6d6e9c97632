------------------------------ MODULE DnsResolver ------------------------------
(***************************************************************************)
(* The asynchronous resolver of one worker (async_dns.c): a cache, a queue *)
(* of queries with a retry timer each, one connected UDP socket read on    *)
(* epoll's edge, and 16-bit query ids.  The network loses, delays,         *)
(* duplicates and reorders answers; the socket may fail a send (ICMP       *)
(* refused, full buffer) or a recv.                                        *)
(*                                                                         *)
(* Abstracted: packets (an answer is the question it repeats and what      *)
(* parse_udp finds in it), addresses (the address a server returns for a   *)
(* host is named by the host), time (a set timer may expire at any time).  *)
(***************************************************************************)
EXTENDS Naturals, Sequences, FiniteSets

CONSTANTS
    Url,            \* the http_url_t objects handed to dns_query
    Host,
    HostOf,         \* [Url -> Host]: url->host
    IdMod,          \* 2^16 in the code: id is a uint16_t
    CacheMax,       \* 50 in the code
    TryLimit,       \* DNS_TRY_LIMIT
    MaxInbox        \* bound: datagrams the socket buffer holds; more are lost

ASSUME DnsAssumption ==
    /\ HostOf \in [Url -> Host]
    /\ IdMod \in Nat \ {0} /\ CacheMax \in Nat \ {0} /\ TryLimit \in Nat /\ MaxInbox \in Nat

VARIABLES
    id,             \* the last id issued
    issued,         \* history: how many ids were issued
    query,          \* [Url -> Query]: the query_queue, ordered by seq
    cache_queue,    \* newest first
    cache_count,
    asked,          \* the questions sent to the server, which may answer each at any time, often
    inbox,          \* datagrams in the socket buffer
    readable,       \* an edge of the socket that epoll has not reported yet
    reading,        \* dns_process_event is running
    broken,         \* the worker crashed or ran into undefined behaviour: nothing after it is modelled
    faults          \* history: which faults of the environment happened

vars == <<id, issued, query, cache_queue, cache_count, asked, inbox, readable,
          reading, broken, faults>>

\* life: not yet asked; in query_queue; handed to create_http_client (addr); or given up, the
\* url object leaked.  seq: position in the queue.  sends: history, datagrams sent for it.
Query == [life: {"new", "asking", "handed", "lost"}, id: 0..(IdMod-1), seq: Nat,
          trytimes: Nat, timer_set: BOOLEAN, sends: Nat, addr: Host \cup {"none"}]

\* What parse_udp finds: an A record; none behind the question; ancount 0, another QTYPE or a
\* length that is not 4; qdcount # 1; fewer bytes than a header
Kind == {"A", "noA", "refused", "badqd", "short"}
Datagram == [id: 0..(IdMod-1), host: Host, kind: Kind]
CacheEntry == [host: Host, addr: Host]

Unused == [life |-> "new", id |-> 0, seq |-> 0, trytimes |-> 0, timer_set |-> FALSE,
           sends |-> 0, addr |-> "none"]
Gone(life, addr) == [Unused EXCEPT !.life = life, !.addr = addr]

Init ==
    /\ id = 0 /\ issued = 0
    /\ query = [u \in Url |-> Unused]
    /\ cache_queue = <<>> /\ cache_count = 0
    /\ asked = {} /\ inbox = {} /\ readable = FALSE /\ reading = FALSE
    /\ broken = FALSE /\ faults = {}

netVars == <<inbox, readable, reading>>
cacheVars == <<cache_queue, cache_count>>

-----------------------------------------------------------------------------
\* find_cache: the first, that is the newest, entry of the host
Cached(host) == {i \in DOMAIN cache_queue : cache_queue[i].host = host}
find_cache(host) ==
    cache_queue[CHOOSE i \in Cached(host) : \A j \in Cached(host) : i <= j].addr

\* set_cache: insert at the head, and drop the last entry when there are more than CacheMax
set_cache(host, addr) ==
    LET q == <<[host |-> host, addr |-> addr]>> \o cache_queue
    IN  IF cache_count + 1 > CacheMax
          THEN cache_queue' = SubSeq(q, 1, Len(q) - 1) /\ cache_count' = cache_count
          ELSE cache_queue' = q /\ cache_count' = cache_count + 1

\* Mutants of Matching: the id is not compared; an ended query is still found
MatchAny(i) == {u \in Url : query[u].life = "asking"}
MatchEnded(i) == {u \in Url : query[u].life # "new" /\ query[u].id = i}

\* find_query: the first query in the queue with this id; the QNAME is not compared
Matching(i) == {u \in Url : query[u].life = "asking" /\ query[u].id = i}
find_query(i) == CHOOSE u \in Matching(i) : \A v \in Matching(i) : query[u].seq <= query[v].seq

\* Mutant of Resend: the timer is not set again
ResendNoTimer(u, q) ==
    /\ query' = [query EXCEPT ![u] = [q EXCEPT !.trytimes = @ + 1, !.sends = @ + 1]]
    /\ UNCHANGED faults

\* unix_send of the same packet again: a failure is logged, and nothing else happens
Resend(u, q) ==
    \/ /\ query' = [query EXCEPT ![u] = [q EXCEPT !.trytimes = @ + 1, !.sends = @ + 1,
                                                   !.timer_set = TRUE]]
       /\ UNCHANGED faults
    \/ /\ query' = [query EXCEPT ![u] = [q EXCEPT !.trytimes = @ + 1]]
       /\ faults' = faults \cup {"resend"}

-----------------------------------------------------------------------------
(* dns_query, called by the worker's loop when it pops a URL *)

CacheHit(u) ==
    /\ ~broken /\ ~reading /\ query[u].life = "new"
    /\ Cached(HostOf[u]) # {}
    /\ query' = [query EXCEPT ![u] = Gone("handed", find_cache(HostOf[u]))]
    /\ UNCHANGED <<id, issued, cacheVars, asked, netVars, broken, faults>>

\* The id is taken before the packet is sent; when the send fails the url is lost
SendQuery(u) ==
    /\ ~broken /\ ~reading /\ query[u].life = "new"
    /\ Cached(HostOf[u]) = {}
    /\ id' = (id + 1) % IdMod /\ issued' = issued + 1
    /\ \/ /\ query' = [query EXCEPT ![u] = [Unused EXCEPT !.life = "asking", !.id = id',
                          !.seq = issued', !.timer_set = TRUE, !.sends = 1]]
          /\ asked' = asked \cup {[id |-> id', host |-> HostOf[u]]}
       \/ /\ query' = [query EXCEPT ![u] = Gone("lost", "none")]
          /\ UNCHANGED asked
    /\ UNCHANGED <<cacheVars, netVars, broken, faults>>

-----------------------------------------------------------------------------
(* The network and the socket *)

\* An answer, or an answer again, reaches the socket: an edge for epoll
Arrive ==
    /\ ~broken /\ Cardinality(inbox) < MaxInbox
    /\ \E q \in asked, k \in Kind :
          inbox' = inbox \cup {[id |-> q.id, host |-> q.host, kind |-> k]}
    /\ inbox' # inbox
    /\ readable' = TRUE
    /\ UNCHANGED <<id, issued, query, cacheVars, asked, reading, broken, faults>>

\* event_process reports the edge and calls dns_process_event
ReadEvent ==
    /\ ~broken /\ readable /\ ~reading
    /\ readable' = FALSE /\ reading' = TRUE
    /\ UNCHANGED <<id, issued, query, cacheVars, asked, inbox, broken, faults>>

\* Mutant of ReadDone: the handler returns before the socket is empty
ReadSome ==
    /\ ~broken /\ reading
    /\ reading' = FALSE
    /\ UNCHANGED <<id, issued, query, cacheVars, asked, inbox, readable, broken, faults>>

\* recv() says EAGAIN
ReadDone ==
    /\ ~broken /\ reading /\ inbox = {}
    /\ reading' = FALSE
    /\ UNCHANGED <<id, issued, query, cacheVars, asked, inbox, readable, broken, faults>>

\* recv() fails: dns_process_event returns, whatever is left in the socket
ReadError ==
    /\ ~broken /\ reading
    /\ reading' = FALSE
    /\ faults' = faults \cup {"recv"}
    /\ UNCHANGED <<id, issued, query, cacheVars, asked, inbox, readable, broken>>

-----------------------------------------------------------------------------
(* parse_udp, one datagram d of the loop in dns_process_event *)

Take(d) ==
    /\ ~broken /\ reading /\ d \in inbox
    /\ inbox' = inbox \ {d}
    /\ UNCHANGED <<id, issued, asked, readable, reading>>

\* Too short, or no query has the id any more
Ignore(d) ==
    /\ Take(d)
    /\ d.kind = "short" \/ (d.kind # "badqd" /\ Matching(d.id) = {})
    /\ UNCHANGED <<query, cacheVars, broken, faults>>

\* qdcount # 1: "failed:" reads query before it is assigned.  It may happen to be NULL.
BadCount(d) ==
    /\ Take(d) /\ d.kind = "badqd"
    /\ faults' = faults \cup {"badqd"}
    /\ broken' \in BOOLEAN
    /\ UNCHANGED <<query, cacheVars>>

\* queue_remove, event_del_timer and free: rbtree_delete of a node that is not in the tree
\* follows its NULL links
EndQuery(u, q) ==
    /\ query' = [query EXCEPT ![u] = q]
    /\ broken' = ~query[u].timer_set

\* An A record: cached under the name the QUERY has, and handed to create_http_client.
\* set_cache gives up silently when calloc fails.
Answered(d) ==
    /\ Take(d) /\ d.kind = "A" /\ Matching(d.id) # {}
    /\ LET u == find_query(d.id) IN
       /\ set_cache(HostOf[u], d.host) \/ UNCHANGED cacheVars
       /\ EndQuery(u, Gone("handed", d.host))
    /\ UNCHANGED faults

\* No A record behind the question: the query is freed and its url with nobody
NoAddress(d) ==
    /\ Take(d) /\ d.kind = "noA" /\ Matching(d.id) # {}
    /\ LET u == find_query(d.id) IN EndQuery(u, Gone("lost", "none"))
    /\ UNCHANGED <<cacheVars, faults>>

\* Mutant of LastTry: one try more
LastTryLate(u) == query[u].trytimes > TryLimit + 1

\* trytimes++ > DNS_TRY_LIMIT
LastTry(u) == query[u].trytimes > TryLimit

\* failed: give up, or send again (the timer that is set is set again)
Refused(d) ==
    /\ Take(d) /\ d.kind = "refused" /\ Matching(d.id) # {}
    /\ LET u == find_query(d.id) IN
       \/ /\ LastTry(u) /\ EndQuery(u, Gone("lost", "none"))
          /\ UNCHANGED faults
       \/ /\ ~LastTry(u) /\ Resend(u, query[u])
          /\ UNCHANGED broken
    /\ UNCHANGED cacheVars

\* dns_timeout_handler: the timer is out of the tree already
Timeout(u) ==
    /\ ~broken /\ ~reading
    /\ query[u].life = "asking" /\ query[u].timer_set
    /\ \/ /\ LastTry(u)
          /\ query' = [query EXCEPT ![u] = Gone("lost", "none")]
          /\ UNCHANGED faults
       \/ /\ ~LastTry(u)
          /\ Resend(u, [query[u] EXCEPT !.timer_set = FALSE])
    /\ UNCHANGED <<id, issued, cacheVars, asked, netVars, broken>>

Process(d) == Ignore(d) \/ BadCount(d) \/ Answered(d) \/ NoAddress(d) \/ Refused(d)

Next ==
    \/ Arrive \/ ReadEvent \/ ReadDone \/ ReadError
    \/ \E u \in Url : CacheHit(u) \/ SendQuery(u) \/ Timeout(u)
    \/ \E d \in inbox : Process(d)

\* The worker keeps running its loop: it reads what is readable, and timers expire (not enabled
\* while it reads, hence SF).  The read loop has no limit: SF of ReadDone says that datagrams do
\* not arrive for ever as fast as they are read.
Fairness ==
    /\ WF_vars(ReadEvent) /\ WF_vars(ReadDone \/ ReadError \/ \E d \in inbox : Process(d))
    /\ SF_vars(ReadDone)
    /\ \A u \in Url : SF_vars(Timeout(u))

Spec == Init /\ [][Next]_vars /\ Fairness

-----------------------------------------------------------------------------
(* Properties *)

\* The variables hold values of the C types they stand for.
TypeOK ==
    /\ id \in 0..(IdMod-1) /\ issued \in Nat
    /\ query \in [Url -> Query]
    /\ cache_queue \in Seq(CacheEntry) /\ cache_count \in Nat
    /\ asked \subseteq [id: 0..(IdMod-1), host: Host]
    /\ inbox \subseteq Datagram
    /\ readable \in BOOLEAN /\ reading \in BOOLEAN /\ broken \in BOOLEAN
    /\ faults \subseteq {"resend", "recv", "badqd"}

\* parse_udp matches an answer by its 16-bit id alone: as long as the ids have not wrapped, every
\* cached address and every address handed to a client is the one the server gave for that host,
\* however late, repeated or reordered the answers are.
RightAddressUntilWrap ==
    issued <= IdMod =>
       /\ \A i \in DOMAIN cache_queue : cache_queue[i].addr = cache_queue[i].host
       /\ \A u \in Url : query[u].life = "handed" => query[u].addr = HostOf[u]

\* event_del_timer in parse_udp is called for a timer that is set, and parse_udp reads query only
\* after it is assigned, unless a resend failed or a packet had qdcount # 1.
SoundWithoutFaults == broken => faults \cap {"resend", "badqd"} # {}

\* The limits hold over any sequence of answers: a query is sent at most DNS_TRY_LIMIT + 2 times, by
\* timeouts and refusals together, and set_cache keeps the queue within its limit, with a counter
\* that is its length.
LimitsKept ==
    /\ TypeOK
    /\ \A u \in Url : query[u].sends <= TryLimit + 2
    /\ cache_count = Len(cache_queue) /\ cache_count <= CacheMax

\* dns_process_event reads until EAGAIN: with an edge-triggered event a datagram is left in the
\* socket without an edge only when recv() failed.
NoDatagramStranded ==
    inbox # {} /\ ~readable /\ ~reading /\ ~broken => "recv" \in faults

\* A url is handed over or given up once: a late or repeated answer never finds it again.
FinalStays ==
    [][\A u \in Url : query[u].life \in {"handed", "lost"} => query'[u] = query[u]]_vars

\* Every query ends, by an answer or by its timer, unless a resend failed (its timer is then gone)
\* or the worker broke: at any time a time is still to come when no url is asking.
QueriesEnd ==
    []<>(\A u \in Url : query[u].life # "asking" \/ "resend" \in faults \/ broken)
=============================================================================
