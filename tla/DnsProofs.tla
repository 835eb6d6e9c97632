------------------------------- MODULE DnsProofs -------------------------------
(* Proofs about DnsResolver, for any urls, hosts, id width and limits. *)
EXTENDS DnsResolver, SequenceTheorems, WellFoundedInduction, TLAPS

-----------------------------------------------------------------------------
(* The inductive invariant *)

\* A resend costs a try, and there is none after the last: the bound on the datagrams is the bound on
\* trytimes.  The counter of the cache is its length.
Limits ==
    /\ \A u \in Url : query[u].trytimes <= TryLimit + 1 /\ query[u].sends <= query[u].trytimes + 1
    /\ cache_count = Len(cache_queue) /\ cache_count <= CacheMax

\* A query in the queue is in the timer tree too, unless unix_send failed for it.
Timed == \A u \in Url : query[u].life = "asking" /\ ~query[u].timer_set => "resend" \in faults

\* The question a query asked
Question(u) == [id |-> query[u].id, host |-> HostOf[u]]

\* Until the ids wrap each names one host: the next one is new, every datagram repeats a question that
\* was asked, and so does every query in the queue.
IdsDistinct ==
    /\ issued < IdMod => id = issued /\ \A q \in asked : q.id \in 1..issued
    /\ issued <= IdMod =>
          /\ \A q, r \in asked : q.id = r.id => q.host = r.host
          /\ \A u \in Url : query[u].life = "asking" => Question(u) \in asked
          /\ \A d \in inbox : [id |-> d.id, host |-> d.host] \in asked

Inv ==
    /\ TypeOK /\ Limits /\ Timed /\ SoundWithoutFaults /\ NoDatagramStranded
    /\ IdsDistinct /\ RightAddressUntilWrap
-----------------------------------------------------------------------------
(* The helpers of async_dns.c *)

\* A set of numbers that is not empty has a least one.
LEMMA Least ==
    ASSUME NEW T, T \subseteq Nat, T # {}
    PROVE  \E x \in T : \A y \in T : x <= y
<1>1. \A x, y \in Nat : <<y, x>> \in OpToRel(<, Nat) <=> y < x
  BY Zenon DEF OpToRel
<1>2. PICK x \in T : \A y \in T : ~ (<<y, x>> \in OpToRel(<, Nat))
  BY NatLessThanWellFounded, WFMin
<1>3. \A y \in T : ~ (y < x)
  BY <1>1, <1>2, Zenon
<1> QED BY <1>3

\* find_query returns a query that is in the queue and has the id.
LEMMA FindQuery ==
    ASSUME TypeOK, NEW n, Matching(n) # {}
    PROVE  find_query(n) \in Url /\ query[find_query(n)].life = "asking" /\ query[find_query(n)].id = n
<1> DEFINE T == {query[u].seq : u \in Matching(n)}
<1>1. \A u \in Matching(n) : u \in Url /\ query[u].seq \in Nat
  BY DEF TypeOK, Matching, Query
<1>2. T \subseteq Nat /\ T # {}
  BY <1>1
<1>3. PICK x \in T : \A y \in T : x <= y
  BY <1>2, Least
<1>4. PICK u \in Matching(n) : x = query[u].seq
  BY <1>3
<1>5. \A v \in Matching(n) : query[u].seq <= query[v].seq
  BY <1>3, <1>4
<1>6. find_query(n) \in Matching(n)
  BY <1>5 DEF find_query
<1> QED BY <1>6 DEF Matching

\* find_cache returns the address of an entry of the host.
LEMMA FindCache ==
    ASSUME TypeOK, NEW host, Cached(host) # {}
    PROVE  \E n \in DOMAIN cache_queue :
              cache_queue[n].host = host /\ find_cache(host) = cache_queue[n].addr
<1>1. Cached(host) \subseteq Nat
  BY DEF Cached, TypeOK
<1>2. PICK n \in Cached(host) : \A j \in Cached(host) : n <= j
  BY <1>1, Least
<1>3. (CHOOSE n_1 \in Cached(host) : \A j \in Cached(host) : n_1 <= j) \in Cached(host)
  BY <1>2
<1> QED BY <1>3 DEF find_cache, Cached

\* set_cache puts one entry in, keeps the others or drops the last, and counts right.
LEMMA SetCache ==
    ASSUME TypeOK, Limits, NEW host \in Host, NEW addr \in Host, set_cache(host, addr)
    PROVE  /\ cache_queue' \in Seq(CacheEntry)
           /\ cache_count' = Len(cache_queue') /\ cache_count' \in Nat /\ cache_count' <= CacheMax
           /\ \A n \in DOMAIN cache_queue' :
                 \/ cache_queue'[n] = [host |-> host, addr |-> addr]
                 \/ \E m \in DOMAIN cache_queue : cache_queue'[n] = cache_queue[m]
<1> DEFINE e == [host |-> host, addr |-> addr]
           q == <<e>> \o cache_queue
<1>1. e \in CacheEntry /\ cache_queue \in Seq(CacheEntry)
  BY DEF CacheEntry, TypeOK
<1>2. /\ q \in Seq(CacheEntry) /\ Len(q) = Len(cache_queue) + 1 /\ Len(cache_queue) \in Nat
      /\ \A n \in DOMAIN q : q[n] = e \/ \E m \in DOMAIN cache_queue : q[n] = cache_queue[m]
  BY <1>1
<1>3. CASE cache_count + 1 > CacheMax
  <2> DEFINE r == SubSeq(q, 1, Len(q) - 1)
  <2>1. \A n \in 1..(Len(q) - 1) : q[n] \in CacheEntry
    BY <1>2
  <2>2. r \in Seq(CacheEntry) /\ Len(r) = Len(q) - 1 /\ \A n \in 1..(Len(q) - 1) : r[n] = q[n]
    <3> HIDE DEF q
    <3> QED BY <1>2, <2>1, SubSeqProperties
  <2>3. cache_queue' = r /\ cache_count' = cache_count
    BY <1>3 DEF set_cache
  <2>4. \A n \in DOMAIN r : n \in DOMAIN q /\ r[n] = q[n]
    BY <1>2, <2>2
  <2> QED BY <1>2, <2>2, <2>3, <2>4, DnsAssumption DEF Limits, TypeOK
<1>4. CASE ~(cache_count + 1 > CacheMax)
  <2>1. cache_queue' = q /\ cache_count' = cache_count + 1
    BY <1>4 DEF set_cache
  <2> QED BY <1>2, <1>4, <2>1, DnsAssumption DEF Limits, TypeOK
<1> QED BY <1>3, <1>4

\* What a query is when it is over.
LEMMA GoneType ==
    ASSUME NEW life \in {"handed", "lost"}, NEW addr \in Host \cup {"none"}
    PROVE  /\ Gone(life, addr) \in Query /\ Gone(life, addr).life = life /\ Gone(life, addr).addr = addr
           /\ Gone(life, addr).trytimes <= TryLimit + 1
           /\ Gone(life, addr).sends <= Gone(life, addr).trytimes + 1
<1>1. 0 \in 0..(IdMod-1)
  BY DnsAssumption
<1>2. Unused \in Query
  BY <1>1 DEF Unused, Query
<1>3. Gone(life, addr).trytimes = 0 /\ Gone(life, addr).sends = 0
  BY DEF Gone, Unused
<1>4. Gone(life, addr) \in Query /\ Gone(life, addr).life = life /\ Gone(life, addr).addr = addr
  BY <1>2 DEF Gone, Unused, Query
<1> QED BY <1>3, <1>4, DnsAssumption
-----------------------------------------------------------------------------
(* One query changes *)

\* A handler replaces the query of u by q, and asks nothing new: the timer, the limits and the ids stay
\* right if they are right for q.
LEMMA QueryChange ==
    ASSUME Inv, NEW u \in Url, NEW q \in Query, query' = [query EXCEPT ![u] = q],
           q.trytimes <= TryLimit + 1, q.sends <= q.trytimes + 1,
           q.life = "asking" => /\ query[u].life = "asking" /\ q.id = query[u].id
                                /\ q.timer_set \/ "resend" \in faults',
           q.life = "handed" /\ issued <= IdMod => q.addr = HostOf[u],
           faults \subseteq faults', inbox' \subseteq inbox,
           UNCHANGED <<id, issued, asked>>
    PROVE  /\ query' \in [Url -> Query] /\ Timed' /\ IdsDistinct'
           /\ \A v \in Url : query'[v].trytimes <= TryLimit + 1 /\ query'[v].sends <= query'[v].trytimes + 1
           /\ issued <= IdMod => \A v \in Url : query'[v].life = "handed" => query'[v].addr = HostOf[v]
<1>1. query' \in [Url -> Query] /\ query'[u] = q /\ \A v \in Url \ {u} : query'[v] = query[v]
  BY DEF Inv, TypeOK
<1>2. Timed'
  BY <1>1 DEF Inv, Timed
<1>3. \A v \in Url : query'[v].trytimes <= TryLimit + 1 /\ query'[v].sends <= query'[v].trytimes + 1
  BY <1>1 DEF Inv, Limits
<1>4. issued <= IdMod => \A v \in Url : query'[v].life = "handed" => query'[v].addr = HostOf[v]
  BY <1>1 DEF Inv, RightAddressUntilWrap
<1>5. IdsDistinct'
  <2>1. issued <= IdMod => \A v \in Url : query'[v].life = "asking" => Question(v)' \in asked
    BY <1>1 DEF Inv, IdsDistinct, Question
  <2> QED BY <2>1 DEF Inv, IdsDistinct
<1> QED BY <1>1, <1>2, <1>3, <1>4, <1>5

\* dns_query finds the host in the cache.
LEMMA CacheHitInv ==
    ASSUME Inv, NEW u \in Url, CacheHit(u)
    PROVE  Inv'
<1> DEFINE a == find_cache(HostOf[u])
           q == Gone("handed", a)
<1>1. PICK n \in DOMAIN cache_queue : cache_queue[n].host = HostOf[u] /\ a = cache_queue[n].addr
  BY FindCache DEF Inv, CacheHit
<1>2. a \in Host /\ (issued <= IdMod => a = HostOf[u])
  <2>1. cache_queue[n] \in CacheEntry
    BY DEF Inv, TypeOK
  <2> QED BY <1>1, <2>1 DEF Inv, CacheEntry, RightAddressUntilWrap
<1> HIDE DEF a
<1>3. q \in Query /\ q.life = "handed" /\ q.addr = a
      /\ q.trytimes <= TryLimit + 1 /\ q.sends <= q.trytimes + 1
  BY <1>2, GoneType
<1> HIDE DEF q
<1>4. /\ query' = [query EXCEPT ![u] = q]
      /\ UNCHANGED <<id, issued, cache_queue, cache_count, asked, inbox, readable, reading, broken, faults>>
  BY DEF CacheHit, cacheVars, netVars, q, a
<1>5. /\ query' \in [Url -> Query] /\ Timed' /\ IdsDistinct'
      /\ \A v \in Url : query'[v].trytimes <= TryLimit + 1 /\ query'[v].sends <= query'[v].trytimes + 1
      /\ issued <= IdMod => \A v \in Url : query'[v].life = "handed" => query'[v].addr = HostOf[v]
  BY <1>2, <1>3, <1>4, QueryChange
<1>6. TypeOK' /\ Limits' /\ SoundWithoutFaults' /\ NoDatagramStranded' /\ RightAddressUntilWrap'
  BY <1>4, <1>5 DEF Inv, TypeOK, Limits, SoundWithoutFaults, NoDatagramStranded, RightAddressUntilWrap
<1> QED BY <1>5, <1>6 DEF Inv
\* dns_query asks: until the ids wrap, the id it takes is one that no question has.
LEMMA SendQueryInv ==
    ASSUME Inv, NEW u \in Url, SendQuery(u)
    PROVE  Inv'
<1> USE DEF cacheVars, netVars
<1>1. /\ id' \in 0..(IdMod-1) /\ issued' = issued + 1 /\ issued' \in Nat /\ issued \in Nat
      /\ issued' < IdMod => issued < IdMod /\ id' = issued'
      /\ issued' <= IdMod => issued < IdMod /\ id' \notin 1..issued
  <2>1. issued \in Nat /\ issued' = issued + 1 /\ id' = (id + 1) % IdMod /\ id \in 0..(IdMod-1)
    BY DEF Inv, TypeOK, SendQuery
  <2>2. issued < IdMod => id = issued
    BY DEF Inv, IdsDistinct
  <2>3. CASE id + 1 < IdMod
    <3>1. id' = id + 1
      BY <2>1, <2>3, DnsAssumption
    <3> QED BY <2>1, <2>2, <2>3, <3>1, DnsAssumption
  <2>4. CASE id + 1 = IdMod
    <3>1. id' = 0
      BY <2>1, <2>4, DnsAssumption
    <3> QED BY <2>1, <2>2, <2>4, <3>1, DnsAssumption
  <2> QED BY <2>1, <2>3, <2>4, DnsAssumption
<1>2. CASE /\ query' = [query EXCEPT ![u] = [Unused EXCEPT !.life = "asking", !.id = id',
                          !.seq = issued', !.timer_set = TRUE, !.sends = 1]]
           /\ asked' = asked \cup {[id |-> id', host |-> HostOf[u]]}
  <2> DEFINE q == [Unused EXCEPT !.life = "asking", !.id = id', !.seq = issued', !.timer_set = TRUE,
                                 !.sends = 1]
  <2>1. q \in Query /\ q.life = "asking" /\ q.id = id' /\ q.timer_set /\ q.trytimes = 0 /\ q.sends = 1
    BY <1>1 DEF Unused, Query
  <2>2. query' \in [Url -> Query] /\ query'[u] = q /\ \A v \in Url \ {u} : query'[v] = query[v]
    BY <1>2, <2>1 DEF Inv, TypeOK
  <2> HIDE DEF q
  <2>3. UNCHANGED <<cache_queue, cache_count, inbox, readable, reading, broken, faults>>
    BY DEF SendQuery
  <2>4. TypeOK'
    <3>1. [id |-> id', host |-> HostOf[u]] \in [id: 0..(IdMod-1), host: Host]
      BY <1>1, DnsAssumption
    <3>2. asked' \subseteq [id: 0..(IdMod-1), host: Host]
      BY <1>2, <3>1 DEF Inv, TypeOK
    <3> QED BY <1>1, <2>2, <2>3, <3>2 DEF Inv, TypeOK
  <2>5. Limits' /\ Timed' /\ SoundWithoutFaults' /\ NoDatagramStranded'
    <3>1. 0 <= TryLimit + 1 /\ 1 <= 0 + 1
      BY DnsAssumption
    <3> QED BY <2>1, <2>2, <2>3, <3>1 DEF Inv, Limits, Timed, SoundWithoutFaults, NoDatagramStranded
  <2>6. RightAddressUntilWrap'
    <3>1. issued' <= IdMod => issued <= IdMod
      BY <1>1, DnsAssumption
    <3> QED BY <2>1, <2>2, <2>3, <3>1 DEF Inv, RightAddressUntilWrap
  <2>7. ASSUME issued' < IdMod PROVE id' = issued' /\ \A r \in asked' : r.id \in 1..issued'
    BY <1>1, <1>2, <2>7 DEF Inv, IdsDistinct
  <2>8. ASSUME issued' <= IdMod
        PROVE  /\ \A r, s \in asked' : r.id = s.id => r.host = s.host
               /\ \A v \in Url : query'[v].life = "asking" => Question(v)' \in asked'
               /\ \A d \in inbox' : [id |-> d.id, host |-> d.host] \in asked'
    <3>1. issued < IdMod /\ issued <= IdMod
      BY <1>1, <2>8, DnsAssumption
    <3>2. \A r \in asked : r.id # id'
      BY <1>1, <2>8, <3>1 DEF Inv, IdsDistinct
    <3>3. \A r, s \in asked' : r.id = s.id => r.host = s.host
      BY <1>2, <3>1, <3>2 DEF Inv, IdsDistinct
    <3>4. \A v \in Url : query'[v].life = "asking" => Question(v)' \in asked'
      BY <1>2, <2>1, <2>2, <3>1 DEF Inv, IdsDistinct, Question
    <3>5. \A d \in inbox' : [id |-> d.id, host |-> d.host] \in asked'
      BY <1>2, <2>3, <3>1 DEF Inv, IdsDistinct
    <3> QED BY <3>3, <3>4, <3>5
  <2> QED BY <2>4, <2>5, <2>6, <2>7, <2>8 DEF Inv, IdsDistinct
<1>3. CASE query' = [query EXCEPT ![u] = Gone("lost", "none")] /\ UNCHANGED asked
  <2> DEFINE q == Gone("lost", "none")
  <2>1. q \in Query /\ q.life = "lost" /\ q.trytimes <= TryLimit + 1 /\ q.sends <= q.trytimes + 1
    BY GoneType
  <2>2. query' \in [Url -> Query] /\ query'[u] = q /\ \A v \in Url \ {u} : query'[v] = query[v]
    BY <1>3, <2>1 DEF Inv, TypeOK
  <2> HIDE DEF q
  <2>3. UNCHANGED <<cache_queue, cache_count, asked, inbox, readable, reading, broken, faults>>
    BY <1>3 DEF SendQuery
  <2>4. TypeOK'
    BY <1>1, <2>2, <2>3 DEF Inv, TypeOK
  <2>5. Limits' /\ Timed' /\ SoundWithoutFaults' /\ NoDatagramStranded'
    BY <2>1, <2>2, <2>3 DEF Inv, Limits, Timed, SoundWithoutFaults, NoDatagramStranded
  <2>6. issued' <= IdMod => issued < IdMod /\ issued <= IdMod
    BY <1>1, DnsAssumption
  <2>7. RightAddressUntilWrap'
    BY <2>1, <2>2, <2>3, <2>6 DEF Inv, RightAddressUntilWrap
  <2>8. IdsDistinct'
    <3>1. issued' < IdMod => id' = issued' /\ \A r \in asked : r.id \in 1..issued'
      BY <1>1 DEF Inv, IdsDistinct
    <3>2. issued' <= IdMod => \A v \in Url : query'[v].life = "asking" => Question(v)' \in asked
      BY <2>1, <2>2, <2>6 DEF Inv, IdsDistinct, Question
    <3> QED BY <2>3, <2>6, <3>1, <3>2 DEF Inv, IdsDistinct
  <2> QED BY <2>4, <2>5, <2>7, <2>8 DEF Inv
<1> QED BY <1>2, <1>3 DEF SendQuery
-----------------------------------------------------------------------------
(* The socket *)

\* A datagram repeats a question that was asked, and its arrival is an edge; an edge is taken by the
\* handler, which leaves when the socket is empty or recv() fails.
LEMMA SocketInv ==
    ASSUME Inv, Arrive \/ ReadEvent \/ ReadDone \/ ReadError
    PROVE  Inv'
<1> USE DEF cacheVars, netVars
<1>1. UNCHANGED <<id, issued, query, cache_queue, cache_count, asked, broken>>
  BY DEF Arrive, ReadEvent, ReadDone, ReadError
<1>2. faults \subseteq faults' /\ faults' \subseteq {"resend", "recv", "badqd"}
  BY DEF Arrive, ReadEvent, ReadDone, ReadError, Inv, TypeOK
<1>3. readable' \in BOOLEAN /\ reading' \in BOOLEAN
  BY DEF Arrive, ReadEvent, ReadDone, ReadError, Inv, TypeOK
<1>4. /\ inbox' \subseteq Datagram
      /\ issued <= IdMod => \A d \in inbox' : [id |-> d.id, host |-> d.host] \in asked
  <2>1. CASE Arrive
    <3>1. PICK q \in asked, k \in Kind : inbox' = inbox \cup {[id |-> q.id, host |-> q.host, kind |-> k]}
      BY <2>1 DEF Arrive
    <3>2. q \in [id: 0..(IdMod-1), host: Host]
      BY DEF Inv, TypeOK
    <3>3. [id |-> q.id, host |-> q.host, kind |-> k] \in Datagram /\ q = [id |-> q.id, host |-> q.host]
      BY <3>2 DEF Datagram
    <3> QED BY <3>1, <3>3 DEF Inv, TypeOK, IdsDistinct
  <2>2. CASE ReadEvent \/ ReadDone \/ ReadError
    BY <2>2 DEF ReadEvent, ReadDone, ReadError, Inv, TypeOK, IdsDistinct
  <2> QED BY <2>1, <2>2
<1>5. NoDatagramStranded'
  BY DEF Inv, NoDatagramStranded, Arrive, ReadEvent, ReadDone, ReadError
<1>6. TypeOK' /\ Limits' /\ Timed' /\ SoundWithoutFaults' /\ RightAddressUntilWrap'
  BY <1>1, <1>2, <1>3, <1>4
     DEF Inv, TypeOK, Limits, Timed, SoundWithoutFaults, RightAddressUntilWrap
<1>7. IdsDistinct'
  <2>1. issued < IdMod => id = issued /\ \A q \in asked : q.id \in 1..issued
    BY DEF Inv, IdsDistinct
  <2>2. issued <= IdMod => \A q, r \in asked : q.id = r.id => q.host = r.host
    BY DEF Inv, IdsDistinct
  <2>3. issued <= IdMod => \A u \in Url : query'[u].life = "asking" => Question(u)' \in asked
    BY <1>1 DEF Inv, IdsDistinct, Question
  <2> QED BY <1>1, <1>4, <2>1, <2>2, <2>3 DEF IdsDistinct
<1> QED BY <1>5, <1>6, <1>7 DEF Inv

-----------------------------------------------------------------------------
(* parse_udp and dns_timeout_handler *)

\* What the two ways to send a packet again keep: a try is counted, and either the timer is set or the
\* failure is on record.
LEMMA ResendEffect ==
    ASSUME TypeOK, Limits, NEW u \in Url, NEW q \in Query, query[u].life = "asking", ~LastTry(u),
           q.life = "asking", q.id = query[u].id, q.trytimes = query[u].trytimes,
           q.sends = query[u].sends, Resend(u, q)
    PROVE  /\ faults \subseteq faults' /\ faults' \subseteq {"resend", "recv", "badqd"}
           /\ \E r \in Query :
                 /\ query' = [query EXCEPT ![u] = r] /\ r.life = "asking" /\ r.id = query[u].id
                 /\ r.trytimes <= TryLimit + 1 /\ r.sends <= r.trytimes + 1
                 /\ r.timer_set \/ "resend" \in faults'
<1>1. /\ query[u].trytimes \in Nat /\ query[u].sends \in Nat /\ query[u].trytimes + 1 <= TryLimit + 1
      /\ query[u].sends + 1 <= query[u].trytimes + 2 /\ query[u].sends <= query[u].trytimes + 2
  <2>1. query[u].trytimes \in Nat /\ query[u].sends \in Nat
    BY DEF TypeOK, Query
  <2> QED BY <2>1, DnsAssumption DEF Limits, LastTry
<1>2. CASE /\ query' = [query EXCEPT ![u] = [q EXCEPT !.trytimes = @ + 1, !.sends = @ + 1,
                                                       !.timer_set = TRUE]]
           /\ UNCHANGED faults
  <2> DEFINE r == [q EXCEPT !.trytimes = @ + 1, !.sends = @ + 1, !.timer_set = TRUE]
  <2>1. r \in Query /\ r.life = "asking" /\ r.id = query[u].id /\ r.timer_set
        /\ r.trytimes = query[u].trytimes + 1 /\ r.sends = query[u].sends + 1
    <3>1. q.trytimes + 1 \in Nat /\ q.sends + 1 \in Nat
      BY <1>1
    <3>2. \A t, n \in Nat : [q EXCEPT !.trytimes = t, !.sends = n, !.timer_set = TRUE] \in Query
      BY DEF Query
    <3>3. r \in Query
      BY <3>1, <3>2
    <3> QED BY <3>3 DEF Query
  <2>2. r.trytimes <= TryLimit + 1 /\ r.sends <= r.trytimes + 1
    <3> HIDE DEF r
    <3> QED BY <1>1, <2>1
  <2> QED BY <1>2, <2>1, <2>2 DEF TypeOK
<1>3. CASE /\ query' = [query EXCEPT ![u] = [q EXCEPT !.trytimes = @ + 1]]
           /\ faults' = faults \cup {"resend"}
  <2> DEFINE r == [q EXCEPT !.trytimes = @ + 1]
  <2>1. r \in Query /\ r.life = "asking" /\ r.id = query[u].id
        /\ r.trytimes = query[u].trytimes + 1 /\ r.sends = query[u].sends
    BY <1>1 DEF Query
  <2>2. r.trytimes <= TryLimit + 1 /\ r.sends <= r.trytimes + 1
    <3> HIDE DEF r
    <3> QED BY <1>1, <2>1
  <2> QED BY <1>3, <2>1, <2>2 DEF TypeOK
<1> QED BY <1>2, <1>3 DEF Resend
\* A handler that leaves the ids and the edge alone keeps the invariant, when what it did to the queries
\* and to the cache is right and it broke nothing without a fault.
LEMMA HandlerInv ==
    ASSUME Inv,
           query' \in [Url -> Query], Timed', IdsDistinct',
           \A v \in Url : query'[v].trytimes <= TryLimit + 1 /\ query'[v].sends <= query'[v].trytimes + 1,
           issued <= IdMod => \A v \in Url : query'[v].life = "handed" => query'[v].addr = HostOf[v],
           cache_queue' \in Seq(CacheEntry),
           cache_count' = Len(cache_queue'), cache_count' \in Nat, cache_count' <= CacheMax,
           issued <= IdMod =>
              \A n \in DOMAIN cache_queue' : cache_queue'[n].addr = cache_queue'[n].host,
           faults \subseteq faults', faults' \subseteq {"resend", "recv", "badqd"},
           ~broken, broken' \in BOOLEAN, broken' => faults' \cap {"resend", "badqd"} # {},
           inbox' \subseteq inbox, UNCHANGED <<id, issued, asked, readable, reading>>
    PROVE  Inv'
<1>1. TypeOK' /\ Limits'
  BY DEF Inv, TypeOK, Limits
<1>2. SoundWithoutFaults' /\ NoDatagramStranded'
  BY DEF Inv, SoundWithoutFaults, NoDatagramStranded
<1>3. RightAddressUntilWrap'
  BY DEF RightAddressUntilWrap
<1> QED BY <1>1, <1>2, <1>3 DEF Inv

\* The cache when a handler does not touch it.
LEMMA SameCache ==
    ASSUME Inv, UNCHANGED cacheVars
    PROVE  /\ cache_queue' \in Seq(CacheEntry)
           /\ cache_count' = Len(cache_queue') /\ cache_count' \in Nat /\ cache_count' <= CacheMax
           /\ issued <= IdMod => \A n \in DOMAIN cache_queue' : cache_queue'[n].addr = cache_queue'[n].host
BY DEF Inv, TypeOK, Limits, RightAddressUntilWrap, cacheVars

\* The query of u ends as q, in parse_udp or by its timer.
LEMMA EndedQuery ==
    ASSUME Inv, NEW u \in Url, NEW life \in {"handed", "lost"}, NEW addr \in Host \cup {"none"},
           query' = [query EXCEPT ![u] = Gone(life, addr)],
           life = "handed" /\ issued <= IdMod => addr = HostOf[u],
           faults \subseteq faults', inbox' \subseteq inbox, UNCHANGED <<id, issued, asked>>
    PROVE  /\ query' \in [Url -> Query] /\ Timed' /\ IdsDistinct'
           /\ \A v \in Url : query'[v].trytimes <= TryLimit + 1 /\ query'[v].sends <= query'[v].trytimes + 1
           /\ issued <= IdMod => \A v \in Url : query'[v].life = "handed" => query'[v].addr = HostOf[v]
<1> DEFINE q == Gone(life, addr)
<1>1. q \in Query /\ q.life = life /\ q.addr = addr
      /\ q.trytimes <= TryLimit + 1 /\ q.sends <= q.trytimes + 1
  BY GoneType
<1>2. query' = [query EXCEPT ![u] = q]
  OBVIOUS
<1> HIDE DEF q
<1> QED BY <1>1, <1>2, QueryChange

\* The same of a query that is sent again.
LEMMA ResentQuery ==
    ASSUME Inv, NEW u \in Url, NEW q \in Query, query[u].life = "asking", ~LastTry(u),
           q.life = "asking", q.id = query[u].id, q.trytimes = query[u].trytimes,
           q.sends = query[u].sends, Resend(u, q),
           inbox' \subseteq inbox, UNCHANGED <<id, issued, asked>>
    PROVE  /\ query' \in [Url -> Query] /\ Timed' /\ IdsDistinct'
           /\ \A v \in Url : query'[v].trytimes <= TryLimit + 1 /\ query'[v].sends <= query'[v].trytimes + 1
           /\ issued <= IdMod => \A v \in Url : query'[v].life = "handed" => query'[v].addr = HostOf[v]
           /\ faults \subseteq faults' /\ faults' \subseteq {"resend", "recv", "badqd"}
<1>1. TypeOK /\ Limits
  BY DEF Inv
<1>2. faults \subseteq faults' /\ faults' \subseteq {"resend", "recv", "badqd"}
  BY <1>1, ResendEffect
<1>3. PICK r \in Query :
         /\ query' = [query EXCEPT ![u] = r] /\ r.life = "asking" /\ r.id = query[u].id
         /\ r.trytimes <= TryLimit + 1 /\ r.sends <= r.trytimes + 1
         /\ r.timer_set \/ "resend" \in faults'
  BY <1>1, ResendEffect
<1> QED BY <1>2, <1>3, QueryChange

\* dns_timeout_handler gives up or sends again.
LEMMA TimeoutInv ==
    ASSUME Inv, NEW u \in Url, Timeout(u)
    PROVE  Inv'
<1> USE DEF netVars
<1>1. /\ UNCHANGED <<id, issued, asked, inbox, readable, reading, broken>> /\ UNCHANGED cacheVars
      /\ ~broken /\ query[u].life = "asking" /\ inbox' \subseteq inbox
  BY DEF Timeout
<1>2. broken' \in BOOLEAN /\ ~broken'
  BY <1>1 DEF Inv, TypeOK
<1>3. CASE query' = [query EXCEPT ![u] = Gone("lost", "none")] /\ UNCHANGED faults
  <2>1. faults \subseteq faults' /\ faults' \subseteq {"resend", "recv", "badqd"}
    BY <1>3 DEF Inv, TypeOK
  <2> QED BY <1>1, <1>2, <1>3, <2>1, EndedQuery, SameCache, HandlerInv
<1>4. CASE ~LastTry(u) /\ Resend(u, [query[u] EXCEPT !.timer_set = FALSE])
  <2> DEFINE q == [query[u] EXCEPT !.timer_set = FALSE]
  <2>1. q \in Query /\ q.life = "asking" /\ q.id = query[u].id /\ q.trytimes = query[u].trytimes
        /\ q.sends = query[u].sends
    BY <1>1 DEF Inv, TypeOK, Query
  <2>2. Resend(u, q)
    BY <1>4
  <2> HIDE DEF q
  <2> QED BY <1>1, <1>2, <1>4, <2>1, <2>2, ResentQuery, SameCache, HandlerInv
<1> QED BY <1>3, <1>4 DEF Timeout

\* parse_udp drops the datagram, or reads query before it is assigned.
LEMMA DroppedInv ==
    ASSUME Inv, NEW d \in inbox, Ignore(d) \/ BadCount(d)
    PROVE  Inv'
<1>1. /\ ~broken /\ reading /\ inbox' \subseteq inbox /\ UNCHANGED cacheVars
      /\ UNCHANGED <<id, issued, query, asked, readable, reading>>
  BY DEF Ignore, BadCount, Take
<1>2. faults \subseteq faults' /\ faults' \subseteq {"resend", "recv", "badqd"}
  BY DEF Ignore, BadCount, Inv, TypeOK
<1>3. broken' \in BOOLEAN /\ (broken' => faults' \cap {"resend", "badqd"} # {})
  <2>1. CASE Ignore(d)
    BY <1>1, <2>1 DEF Ignore, Inv, TypeOK
  <2>2. CASE BadCount(d)
    BY <2>2 DEF BadCount
  <2> QED BY <2>1, <2>2
<1>4. /\ query' \in [Url -> Query] /\ Timed'
      /\ \A v \in Url : query'[v].trytimes <= TryLimit + 1 /\ query'[v].sends <= query'[v].trytimes + 1
      /\ issued <= IdMod => \A v \in Url : query'[v].life = "handed" => query'[v].addr = HostOf[v]
  BY <1>1, <1>2 DEF Inv, TypeOK, Timed, Limits, RightAddressUntilWrap
<1>5. IdsDistinct'
  <2>1. issued <= IdMod => \A u \in Url : query'[u].life = "asking" => Question(u)' \in asked
    BY <1>1 DEF Inv, IdsDistinct, Question
  <2> QED BY <1>1, <2>1 DEF Inv, IdsDistinct
<1> QED BY <1>1, <1>2, <1>3, <1>4, <1>5, SameCache, HandlerInv
\* The facts every outcome of parse_udp that found a query shares: which query it is, that the datagram
\* names its host until the ids wrap, and what freeing it without a timer breaks.
LEMMA Found ==
    ASSUME Inv, NEW d \in inbox, Take(d), Matching(d.id) # {}, NEW u, u = find_query(d.id)
    PROVE  /\ u \in Url /\ query[u].life = "asking" /\ HostOf[u] \in Host /\ d.host \in Host
           /\ issued <= IdMod => d.host = HostOf[u]
           /\ ~broken /\ inbox' \subseteq inbox /\ UNCHANGED <<id, issued, asked, readable, reading>>
           /\ query[u].timer_set \in BOOLEAN /\ (~query[u].timer_set => "resend" \in faults)
           /\ faults \subseteq {"resend", "recv", "badqd"}
<1>1. u \in Url /\ query[u].life = "asking" /\ query[u].id = d.id
  BY FindQuery DEF Inv
<1>2. d \in Datagram /\ query[u] \in Query
  BY <1>1 DEF Inv, TypeOK
<1>3. issued <= IdMod => d.host = HostOf[u]
  <2> SUFFICES ASSUME issued <= IdMod PROVE d.host = HostOf[u]
    OBVIOUS
  <2>1. Question(u) \in asked /\ [id |-> d.id, host |-> d.host] \in asked
    BY <1>1 DEF Inv, IdsDistinct
  <2>2. Question(u).id = d.id /\ Question(u).host = HostOf[u]
    BY <1>1 DEF Question
  <2>3. \A q, r \in asked : q.id = r.id => q.host = r.host
    BY DEF Inv, IdsDistinct
  <2> QED BY <2>1, <2>2, <2>3
<1>4. query[u].timer_set \in BOOLEAN /\ (~query[u].timer_set => "resend" \in faults)
  BY <1>1, <1>2 DEF Inv, Timed, Query
<1>5. HostOf[u] \in Host /\ d.host \in Host
  BY <1>1, <1>2, DnsAssumption DEF Datagram
<1> QED BY <1>1, <1>3, <1>4, <1>5 DEF Take, Inv, TypeOK

\* An A record is handed on and cached: until the ids wrap it is the right host's.
LEMMA AnsweredInv ==
    ASSUME Inv, NEW d \in inbox, Answered(d)
    PROVE  Inv'
<1> DEFINE u == find_query(d.id)
<1>0. Take(d) /\ Matching(d.id) # {} /\ UNCHANGED faults
  BY DEF Answered
<1>1. /\ u \in Url /\ query[u].life = "asking" /\ HostOf[u] \in Host /\ d.host \in Host
      /\ issued <= IdMod => d.host = HostOf[u]
      /\ ~broken /\ inbox' \subseteq inbox /\ UNCHANGED <<id, issued, asked, readable, reading>>
      /\ query[u].timer_set \in BOOLEAN /\ (~query[u].timer_set => "resend" \in faults)
      /\ faults \subseteq {"resend", "recv", "badqd"}
  BY <1>0, Found
<1>2. /\ set_cache(HostOf[u], d.host) \/ UNCHANGED cacheVars
      /\ query' = [query EXCEPT ![u] = Gone("handed", d.host)] /\ broken' = ~query[u].timer_set
  BY DEF Answered, EndQuery
<1> HIDE DEF u
<1>3. /\ query' \in [Url -> Query] /\ Timed' /\ IdsDistinct'
      /\ \A v \in Url : query'[v].trytimes <= TryLimit + 1 /\ query'[v].sends <= query'[v].trytimes + 1
      /\ issued <= IdMod => \A v \in Url : query'[v].life = "handed" => query'[v].addr = HostOf[v]
  BY <1>0, <1>1, <1>2, EndedQuery
<1>4. /\ cache_queue' \in Seq(CacheEntry)
      /\ cache_count' = Len(cache_queue') /\ cache_count' \in Nat /\ cache_count' <= CacheMax
      /\ issued <= IdMod => \A n \in DOMAIN cache_queue' : cache_queue'[n].addr = cache_queue'[n].host
  <2>1. CASE UNCHANGED cacheVars
    BY <2>1, SameCache
  <2>2. CASE set_cache(HostOf[u], d.host)
    <3>1. /\ cache_queue' \in Seq(CacheEntry)
          /\ cache_count' = Len(cache_queue') /\ cache_count' \in Nat /\ cache_count' <= CacheMax
          /\ \A n \in DOMAIN cache_queue' :
                \/ cache_queue'[n] = [host |-> HostOf[u], addr |-> d.host]
                \/ \E m \in DOMAIN cache_queue : cache_queue'[n] = cache_queue[m]
      BY <1>1, <2>2, SetCache DEF Inv
    <3>2. ASSUME issued <= IdMod, NEW n \in DOMAIN cache_queue'
          PROVE  cache_queue'[n].addr = cache_queue'[n].host
      BY <1>1, <3>1, <3>2 DEF Inv, RightAddressUntilWrap
    <3> QED BY <3>1, <3>2
  <2> QED BY <1>2, <2>1, <2>2
<1>5. broken' \in BOOLEAN /\ (broken' => faults' \cap {"resend", "badqd"} # {})
      /\ faults \subseteq faults' /\ faults' \subseteq {"resend", "recv", "badqd"}
  BY <1>0, <1>1, <1>2
<1> QED BY <1>1, <1>3, <1>4, <1>5, HandlerInv

\* There is no A record, or the tries are used up: the query ends without an address.
LEMMA GivenUpInv ==
    ASSUME Inv, NEW d \in inbox, Take(d), Matching(d.id) # {},
           EndQuery(find_query(d.id), Gone("lost", "none")), UNCHANGED faults, UNCHANGED cacheVars
    PROVE  Inv'
<1> DEFINE u == find_query(d.id)
<1>1. /\ u \in Url /\ query[u].life = "asking"
      /\ ~broken /\ inbox' \subseteq inbox /\ UNCHANGED <<id, issued, asked, readable, reading>>
      /\ query[u].timer_set \in BOOLEAN /\ (~query[u].timer_set => "resend" \in faults)
      /\ faults \subseteq {"resend", "recv", "badqd"}
  BY Found
<1>2. query' = [query EXCEPT ![u] = Gone("lost", "none")] /\ broken' = ~query[u].timer_set
  BY DEF EndQuery
<1> HIDE DEF u
<1>3. /\ query' \in [Url -> Query] /\ Timed' /\ IdsDistinct'
      /\ \A v \in Url : query'[v].trytimes <= TryLimit + 1 /\ query'[v].sends <= query'[v].trytimes + 1
      /\ issued <= IdMod => \A v \in Url : query'[v].life = "handed" => query'[v].addr = HostOf[v]
  BY <1>1, <1>2, EndedQuery
<1>4. broken' \in BOOLEAN /\ (broken' => faults' \cap {"resend", "badqd"} # {})
      /\ faults \subseteq faults' /\ faults' \subseteq {"resend", "recv", "badqd"}
  BY <1>1, <1>2
<1> QED BY <1>1, <1>3, <1>4, SameCache, HandlerInv

\* A refusal with tries left: the packet is sent again.
LEMMA RefusedInv ==
    ASSUME Inv, NEW d \in inbox, Refused(d)
    PROVE  Inv'
<1> DEFINE u == find_query(d.id)
<1>0. Take(d) /\ Matching(d.id) # {} /\ UNCHANGED cacheVars
  BY DEF Refused
<1>1. CASE EndQuery(u, Gone("lost", "none")) /\ UNCHANGED faults
  BY <1>0, <1>1, GivenUpInv
<1>2. CASE ~LastTry(u) /\ Resend(u, query[u]) /\ UNCHANGED broken
  <2>1. /\ u \in Url /\ query[u].life = "asking"
        /\ ~broken /\ inbox' \subseteq inbox /\ UNCHANGED <<id, issued, asked, readable, reading>>
    BY <1>0, Found
  <2> HIDE DEF u
  <2>2. query[u] \in Query /\ broken' \in BOOLEAN /\ ~broken'
    BY <1>2, <2>1 DEF Inv, TypeOK
  <2>3. /\ query' \in [Url -> Query] /\ Timed' /\ IdsDistinct'
        /\ \A v \in Url : query'[v].trytimes <= TryLimit + 1 /\ query'[v].sends <= query'[v].trytimes + 1
        /\ issued <= IdMod => \A v \in Url : query'[v].life = "handed" => query'[v].addr = HostOf[v]
        /\ faults \subseteq faults' /\ faults' \subseteq {"resend", "recv", "badqd"}
    BY <1>2, <2>1, <2>2, ResentQuery
  <2> QED BY <1>0, <2>1, <2>2, <2>3, SameCache, HandlerInv
<1> QED BY <1>1, <1>2 DEF Refused
-----------------------------------------------------------------------------
(* The theorems *)

\* The initial state satisfies the invariant.
LEMMA InitInv == Init => Inv
<1> SUFFICES ASSUME Init PROVE Inv
  OBVIOUS
<1>1. Unused \in Query /\ Unused.life = "new" /\ Unused.trytimes = 0 /\ Unused.sends = 0
  <2>1. 0 \in 0..(IdMod-1)
    BY DnsAssumption
  <2> QED BY <2>1 DEF Unused, Query
<1>2. 0 \in 0..(IdMod-1) /\ 0 <= TryLimit + 1 /\ 0 <= 0 + 1 /\ 0 <= CacheMax
  BY DnsAssumption
<1>3. TypeOK
  <2>1. query \in [Url -> Query]
    BY <1>1 DEF Init
  <2>2. cache_queue \in Seq(CacheEntry)
    BY DEF Init
  <2> QED BY <1>2, <2>1, <2>2 DEF Init, TypeOK
<1>4. Limits
  <2>1. Len(cache_queue) = 0
    BY DEF Init
  <2> QED BY <1>1, <1>2, <2>1 DEF Init, Limits
<1>5. Timed /\ SoundWithoutFaults /\ NoDatagramStranded
  BY <1>1 DEF Init, Timed, SoundWithoutFaults, NoDatagramStranded
<1>6. IdsDistinct
  BY <1>1 DEF Init, IdsDistinct
<1>7. RightAddressUntilWrap
  <2>1. \A u \in Url : query[u].life # "handed"
    BY <1>1 DEF Init
  <2>2. DOMAIN cache_queue = {}
    BY DEF Init
  <2> QED BY <2>1, <2>2 DEF RightAddressUntilWrap
<1> QED BY <1>3, <1>4, <1>5, <1>6, <1>7 DEF Inv

\* Every step keeps it.
LEMMA NextInv == Inv /\ [Next]_vars => Inv'
<1> SUFFICES ASSUME Inv, [Next]_vars PROVE Inv'
  OBVIOUS
<1>1. CASE Arrive \/ ReadEvent \/ ReadDone \/ ReadError
  BY <1>1, SocketInv
<1>2. CASE \E u \in Url : CacheHit(u) \/ SendQuery(u) \/ Timeout(u)
  BY <1>2, CacheHitInv, SendQueryInv, TimeoutInv
<1>3. ASSUME NEW d \in inbox, Process(d) PROVE Inv'
  <2>1. CASE Ignore(d) \/ BadCount(d)
    BY <2>1, DroppedInv
  <2>2. CASE Answered(d)
    BY <2>2, AnsweredInv
  <2>3. CASE NoAddress(d)
    BY <2>3, GivenUpInv DEF NoAddress
  <2>4. CASE Refused(d)
    BY <2>4, RefusedInv
  <2> QED BY <1>3, <2>1, <2>2, <2>3, <2>4 DEF Process
<1>4. CASE UNCHANGED vars
  <2>1. TypeOK' /\ Limits' /\ Timed' /\ SoundWithoutFaults' /\ NoDatagramStranded'
    BY <1>4 DEF vars, Inv, TypeOK, Limits, Timed, SoundWithoutFaults, NoDatagramStranded
  <2>2. IdsDistinct' /\ RightAddressUntilWrap'
    BY <1>4 DEF vars, Inv, IdsDistinct, Question, RightAddressUntilWrap
  <2> QED BY <2>1, <2>2 DEF Inv
<1> QED BY <1>1, <1>2, <1>3, <1>4 DEF Next

\* The inductive invariant holds.
LEMMA InvHolds == Spec => []Inv
BY InitInv, NextInv, PTL DEF Spec

\* Until 2^16 ids have been issued the address cached or handed to a client is the one the server gave
\* for that very host, although parse_udp compares nothing but the id.
THEOREM AddressesRight == Spec => []RightAddressUntilWrap
<1>1. Inv => RightAddressUntilWrap
  BY DEF Inv
<1> QED BY <1>1, InvHolds, PTL

\* parse_udp takes a timer out of the tree that is in it, and reads an assigned query, unless a resend
\* failed or a packet had a wrong qdcount.
THEOREM BrokenOnlyByFaults == Spec => []SoundWithoutFaults
<1>1. Inv => SoundWithoutFaults
  BY DEF Inv
<1> QED BY <1>1, InvHolds, PTL

\* The variables have their types, a query is sent at most DNS_TRY_LIMIT + 2 times and the cache keeps
\* its limit.
THEOREM LimitsHold == Spec => []LimitsKept
<1>1. ASSUME Inv PROVE LimitsKept
  <2>1. \A u \in Url : query[u].sends <= TryLimit + 2
    <3> TAKE u \in Url
    <3>1. query[u].sends \in Nat /\ query[u].trytimes \in Nat
      BY <1>1 DEF Inv, TypeOK, Query
    <3>2. query[u].trytimes <= TryLimit + 1 /\ query[u].sends <= query[u].trytimes + 1
      BY <1>1 DEF Inv, Limits
    <3> QED BY <3>1, <3>2, DnsAssumption
  <2> QED BY <1>1, <2>1 DEF Inv, Limits, LimitsKept
<1> QED BY <1>1, InvHolds, PTL

\* A datagram waits without an edge only after a recv() that failed.
THEOREM SocketDrained == Spec => []NoDatagramStranded
<1>1. Inv => NoDatagramStranded
  BY DEF Inv
<1> QED BY <1>1, InvHolds, PTL

\* Once a url is handed on or given up no late or repeated answer, and no timer, touches it.
THEOREM UrlsEndOnce == Spec => FinalStays
<1>1. ASSUME Inv, [Next]_vars
      PROVE  [\A u \in Url : query[u].life \in {"handed", "lost"} => query'[u] = query[u]]_vars
  <2>1. query \in [Url -> Query]
    BY <1>1 DEF Inv, TypeOK
  <2>2. ASSUME NEW u \in Url, CacheHit(u) \/ SendQuery(u) \/ Timeout(u)
        PROVE  query[u].life \notin {"handed", "lost"} /\ \A v \in Url \ {u} : query'[v] = query[v]
    BY <2>1, <2>2 DEF CacheHit, SendQuery, Timeout, Resend
  <2>3. ASSUME NEW d \in inbox, Process(d)
        PROVE  \A u \in Url : query[u].life \in {"handed", "lost"} => query'[u] = query[u]
    <3>1. CASE Ignore(d) \/ BadCount(d)
      BY <3>1 DEF Ignore, BadCount
    <3>2. CASE Answered(d) \/ NoAddress(d) \/ Refused(d)
      <4> DEFINE f == find_query(d.id)
      <4>1. f \in Url /\ query[f].life = "asking"
        BY <1>1, <3>2, FindQuery DEF Inv, Answered, NoAddress, Refused
      <4>2. \E q : query' = [query EXCEPT ![f] = q]
        BY <3>2 DEF Answered, NoAddress, Refused, EndQuery, Resend
      <4> HIDE DEF f
      <4> QED BY <2>1, <4>1, <4>2
    <3> QED BY <2>3, <3>1, <3>2 DEF Process
  <2>4. CASE Arrive \/ ReadEvent \/ ReadDone \/ ReadError
    BY <2>4 DEF Arrive, ReadEvent, ReadDone, ReadError
  <2> QED BY <1>1, <2>2, <2>3, <2>4 DEF Next
<1> QED BY <1>1, InvHolds, PTL DEF Spec, FinalStays
===============================================================================
