------------------------------- MODULE CrawlProofs -------------------------------
(* Proofs about CrawlQueue, for any number of workers, any site and any hash functions. *)
EXTENDS CrawlQueue, TLAPS

-----------------------------------------------------------------------------
(* The inductive invariant *)

WorkerState ==
    [at: {"down", "init", "top", "events", "check", "set", "push"}, resolving: [Url -> Nat],
     fetching: [Url -> Nat], free: Nat, links: Seq(Url), i: Nat, whole: BOOLEAN]

\* The variables have their types.
TypeOK ==
    /\ seeding \in Seq(Url) /\ master \in {"seeding", "started"}
    /\ list \in [Worker -> Seq(Url)] /\ refusals \in Nat
    /\ err \in [Worker -> BOOLEAN] /\ worker \in [Worker -> WorkerState]
    /\ wipes \in [Worker -> Nat] /\ unset \in [Worker -> [Url -> Nat]]
    /\ marked \in [Worker -> SUBSET Url] /\ intact \subseteq Url
    /\ pushed \in [Worker -> [Url -> Nat]] /\ dropped \in [Worker -> SUBSET Url]

Here(x) == Head(x.links)

\* search_for_links has a link while it is at one, and the loops of bloom_check and bloom_set stay
\* within the link's offsets.
AtLink(x) ==
    /\ x.at \in {"check", "set", "push"} => x.links # <<>>
    /\ x.at \in {"check", "set"} => x.i \in 1..Len(Offsets[Here(x)])

\* A bloom_set that no bloom_init interrupted and no error spoilt has set the bits it has come to.
SetSoFar(x, bits, failed) ==
    x.whole =>
       /\ x.at = "set" => \A k \in 1..(x.i - 1) : Offsets[Here(x)][k] \in bits
       /\ x.at = "push" /\ ~failed => Bits(Here(x)) \subseteq bits

\* How often a worker may find a URL new that it has pushed: once for every bloom_init of another worker,
\* and for every bit of it that redis refused to set
Allowed(inits, refused) == [u \in Url |-> inits + refused[u]]

\* A worker that has pushed a URL finds all its bits, unless a bloom_init took them away or redis refused
\* them; so the push it is about to do is within the bound.
Counted(x, bits, failed, count, more) ==
    x.at \notin {"down", "init"} /\ ~failed =>
       /\ \A u \in Url : ~(Bits(u) \subseteq bits) => count[u] <= more[u]
       /\ x.at \in {"set", "push"} => count[Here(x)] + (IF x.whole THEN 0 ELSE 1) <= more[Here(x)]

Sound(w) ==
    /\ AtLink(worker[w]) /\ SetSoFar(worker[w], filter, err[w])
    /\ Counted(worker[w], filter, err[w], pushed[w], Allowed(wipes[w], unset[w]))

\* Nothing runs before the seeds are pushed, and a worker that starts has pushed nothing.
Before ==
    /\ master = "seeding" => \A w \in Worker : marked[w] = {} /\ worker[w].at = "down"
    /\ \A w \in Worker : worker[w].at = "init" => \A u \in Url : pushed[w][u] = 0
    /\ master = "seeding" => \A w \in Worker, u \in Url : pushed[w][u] = 0

Inv ==
    /\ TypeOK /\ (\A w \in Worker : Sound(w)) /\ Before
    /\ NoFalseNegative /\ PushedOncePerWipe /\ MarkedIsQueued

-----------------------------------------------------------------------------
(* One worker *)

\* A link that is left is a URL with at least one offset.
LEMMA HereType ==
    ASSUME NEW x \in WorkerState, x.links # <<>>
    PROVE  /\ Here(x) \in Url /\ Tail(x.links) \in Seq(Url)
           /\ Offsets[Here(x)] \in Seq(Nat) /\ Len(Offsets[Here(x)]) \in Nat \ {0}
           /\ \A k \in 1..Len(Offsets[Here(x)]) : Offsets[Here(x)][k] \in Nat
<1>1. x.links \in Seq(Url)
  BY DEF WorkerState
<1>2. Here(x) \in Url /\ Tail(x.links) \in Seq(Url)
  BY <1>1 DEF Here
<1>3. Offsets[Here(x)] \in Seq(Nat) /\ Len(Offsets[Here(x)]) > 0
  BY <1>2, CrawlAssumption
<1> HIDE DEF Here
<1>4. Len(Offsets[Here(x)]) \in Nat /\ \A k \in 1..Len(Offsets[Here(x)]) : Offsets[Here(x)][k] \in Nat
  BY <1>3
<1> QED BY <1>2, <1>3, <1>4

\* The bits of a URL are the values of its offsets.
LEMMA BitsOf ==
    ASSUME NEW u \in Url
    PROVE  Bits(u) = {Offsets[u][k] : k \in 1..Len(Offsets[u])}
<1>1. Offsets[u] \in Seq(Nat)
  BY CrawlAssumption
<1>2. DOMAIN Offsets[u] = 1..Len(Offsets[u])
  BY <1>1
<1> QED BY <1>2 DEF Bits, Range

\* Bits that another worker sets leave a worker as sound as it was.
LEMMA SoundMonotone ==
    ASSUME NEW x, NEW bits, NEW wider, bits \subseteq wider, NEW failed, NEW count, NEW more,
           SetSoFar(x, bits, failed), Counted(x, bits, failed, count, more)
    PROVE  SetSoFar(x, wider, failed) /\ Counted(x, wider, failed, count, more)
<1>1. SetSoFar(x, wider, failed)
  BY DEF SetSoFar
<1>2. Counted(x, wider, failed, count, more)
  BY DEF Counted
<1> QED BY <1>1, <1>2

\* Going on to the next link, in bloom_check or after a push.
LEMMA NextLinkSound ==
    ASSUME NEW x \in WorkerState, NEW links \in Seq(Url), NEW bits, NEW failed, NEW count, NEW more,
           ~failed => \A u \in Url : ~(Bits(u) \subseteq bits) => count[u] <= more[u]
    PROVE  LET y == NextLink(x, links)
           IN  /\ y \in WorkerState /\ AtLink(y) /\ SetSoFar(y, bits, failed)
               /\ Counted(y, bits, failed, count, more) /\ y.at \in {"events", "check"}
<1> DEFINE y == NextLink(x, links)
<1>1. y \in WorkerState /\ y.links = links /\ y.i = 1 /\ y.at = IF links = <<>> THEN "events" ELSE "check"
  BY DEF NextLink, WorkerState
<1> HIDE DEF y
<1>2. AtLink(y)
  <2>1. ASSUME links # <<>> PROVE 1 \in 1..Len(Offsets[Here(y)])
    BY <1>1, <2>1, HereType
  <2> QED BY <1>1, <2>1 DEF AtLink
<1>3. SetSoFar(y, bits, failed) /\ Counted(y, bits, failed, count, more)
  BY <1>1 DEF SetSoFar, Counted
<1> QED BY <1>1, <1>2, <1>3 DEF y

\* Going on to the next offset of a link.
LEMMA NextOffsetType ==
    ASSUME NEW x \in WorkerState
    PROVE  /\ NextOffset(x) \in WorkerState /\ NextOffset(x).i = x.i + 1
           /\ NextOffset(x).at = x.at /\ NextOffset(x).links = x.links /\ NextOffset(x).whole = x.whole
<1>1. x.i + 1 \in Nat
  BY DEF WorkerState
<1>2. \A n \in Nat : [x EXCEPT !.i = n] \in WorkerState
  BY DEF WorkerState
<1>3. NextOffset(x) = [x EXCEPT !.i = x.i + 1]
  BY DEF NextOffset
<1>4. NextOffset(x) \in WorkerState
  BY <1>1, <1>2, <1>3
<1> QED BY <1>3, <1>4 DEF WorkerState

\* A worker between two pages is sound whatever its fetches are.
LEMMA Resting ==
    ASSUME NEW x, NEW y, x.at \in {"top", "events"}, y.at \in {"top", "events"},
           NEW bits, NEW failed, NEW count, NEW more, Counted(x, bits, failed, count, more)
    PROVE  AtLink(y) /\ SetSoFar(y, bits, failed) /\ Counted(y, bits, failed, count, more)
BY DEF AtLink, SetSoFar, Counted

\* What the invariant says of one worker.
LEMMA WorkerFacts ==
    ASSUME Inv, NEW w \in Worker
    PROVE  /\ worker[w] \in WorkerState /\ err[w] \in BOOLEAN /\ wipes[w] \in Nat
           /\ unset[w] \in [Url -> Nat] /\ pushed[w] \in [Url -> Nat] /\ list[w] \in Seq(Url)
           /\ AtLink(worker[w]) /\ SetSoFar(worker[w], filter, err[w])
           /\ Counted(worker[w], filter, err[w], pushed[w], Allowed(wipes[w], unset[w]))
BY DEF Inv, TypeOK, Sound

\* What a command leaves in refusals.
LEMMA RefusalsType ==
    ASSUME Inv, UNCHANGED refusals \/ Refused
    PROVE  refusals' \in Nat
BY DEF Refused, Inv, TypeOK

\* A step of one worker that writes nothing shared but its list.
LEMMA QuietStep ==
    ASSUME Inv, NEW w \in Worker, NEW y \in WorkerState, worker' = [worker EXCEPT ![w] = y],
           AtLink(y), SetSoFar(y, filter, err[w]),
           Counted(y, filter, err[w], pushed[w], Allowed(wipes[w], unset[w])),
           worker[w].at # "down", y.at # "init", worker[w].at # "push" \/ y.at = "down" \/ err[w],
           list' \in [Worker -> Seq(Url)], UNCHANGED refusals \/ Refused,
           UNCHANGED <<seeding, master, filter, err, wipes, unset, marked, intact, pushed, dropped>>
    PROVE  Inv'
<1>1. /\ worker' \in [Worker -> WorkerState] /\ worker'[w] = y
      /\ \A v \in Worker \ {w} : worker'[v] = worker[v]
  BY DEF Inv, TypeOK
<1>2. TypeOK'
  BY <1>1, RefusalsType DEF Inv, TypeOK
<1>3. \A v \in Worker : Sound(v)'
  BY <1>1 DEF Inv, Sound
<1>4. master = "started"
  BY DEF Inv, TypeOK, Before
<1>5. Before'
  BY <1>1, <1>4 DEF Inv, Before
<1>6. NoFalseNegative' /\ PushedOncePerWipe'
  BY DEF Inv, NoFalseNegative, PushedOncePerWipe
<1>7. MarkedIsQueued'
  <2> SUFFICES ASSUME NEW v \in Worker, NEW u \in Owed(v)
               PROVE  /\ Owed(v) = {u}
                      /\ (worker'[v].at = "push" /\ Head(worker'[v].links) = u) \/ err[v] \/ worker'[v].at = "down"
    BY DEF MarkedIsQueued, Owed, At, Link
  <2>1. /\ Owed(v) = {u}
        /\ (worker[v].at = "push" /\ Head(worker[v].links) = u) \/ err[v] \/ worker[v].at = "down"
    BY DEF Inv, MarkedIsQueued, At, Link
  <2>2. CASE v = w
    BY <1>1, <2>1, <2>2
  <2>3. CASE v # w
    BY <1>1, <2>1, <2>3
  <2> QED BY <2>2, <2>3
<1> QED BY <1>2, <1>3, <1>5, <1>6, <1>7 DEF Inv

\* A step of a worker between two pages that leaves it there.
LEMMA RestingStep ==
    ASSUME Inv, NEW w \in Worker, NEW y \in WorkerState, worker' = [worker EXCEPT ![w] = y],
           worker[w].at \in {"top", "events"}, y.at \in {"top", "events"},
           list' \in [Worker -> Seq(Url)], UNCHANGED refusals \/ Refused,
           UNCHANGED <<seeding, master, filter, err, wipes, unset, marked, intact, pushed, dropped>>
    PROVE  Inv'
<1>1. /\ AtLink(y) /\ SetSoFar(y, filter, err[w])
      /\ Counted(y, filter, err[w], pushed[w], Allowed(wipes[w], unset[w]))
  BY WorkerFacts, Resting
<1> QED BY <1>1, QuietStep

\* One fetch more or less is a number of fetches.
LEMMA FetchType ==
    ASSUME NEW f \in [Url -> Nat], NEW u \in Url
    PROVE  /\ [f EXCEPT ![u] = f[u] + 1] \in [Url -> Nat]
           /\ f[u] > 0 => [f EXCEPT ![u] = f[u] - 1] \in [Url -> Nat]
OBVIOUS

\* The worker takes a URL from its list, or not.
LEMMA PopInv ==
    ASSUME Inv, NEW w \in Worker, Pop(w) \/ PopNothing(w) \/ EndRound(w)
    PROVE  Inv'
<1>1. worker[w] \in WorkerState /\ worker[w].at \in {"top", "events"}
  BY WorkerFacts DEF Pop, PopNothing, EndRound, At
<1>2. /\ UNCHANGED refusals \/ Refused
      /\ UNCHANGED <<seeding, master, filter, err, wipes, unset, marked, intact, pushed, dropped>>
  BY DEF Pop, PopNothing, EndRound, Done, Fails, history
<1>3. CASE Pop(w)
  <2> DEFINE h == Head(list[w])
             g == [worker[w].resolving EXCEPT ![h] = worker[w].resolving[h] + 1]
             y == [worker[w] EXCEPT !.resolving = g, !.at = "events"]
  <2>1. h \in Url /\ Tail(list[w]) \in Seq(Url)
    BY <1>3, WorkerFacts DEF Pop
  <2>2. g \in [Url -> Nat]
    BY <1>1, <2>1, FetchType DEF WorkerState
  <2>3. worker' = [worker EXCEPT ![w] = y]
    BY <1>3 DEF Pop
  <2>4. list' \in [Worker -> Seq(Url)]
    BY <1>3, <2>1 DEF Pop, Inv, TypeOK
  <2> HIDE DEF g
  <2>5. y \in WorkerState /\ y.at = "events"
    BY <1>1, <2>2 DEF WorkerState
  <2> QED BY <1>1, <1>2, <2>3, <2>4, <2>5, RestingStep
<1>4. CASE PopNothing(w) \/ EndRound(w)
  <2>1. PICK a \in {"top", "events"} : worker' = [worker EXCEPT ![w] = [worker[w] EXCEPT !.at = a]]
    BY <1>4 DEF PopNothing, EndRound
  <2>2. [worker[w] EXCEPT !.at = a] \in WorkerState /\ [worker[w] EXCEPT !.at = a].at = a
    BY <1>1 DEF WorkerState
  <2>3. list' \in [Worker -> Seq(Url)]
    BY <1>4 DEF PopNothing, EndRound, Inv, TypeOK
  <2> QED BY <1>1, <1>2, <2>1, <2>2, <2>3, RestingStep
<1> QED BY <1>3, <1>4

\* A name is resolved, or not.
LEMMA ResolvedInv ==
    ASSUME Inv, NEW w \in Worker, NEW u \in Url, Connect(w, u) \/ ResolveFails(w, u)
    PROVE  Inv'
<1> DEFINE x == worker[w]
           g == [x.resolving EXCEPT ![u] = x.resolving[u] - 1]
           f == [x.fetching EXCEPT ![u] = x.fetching[u] + 1]
<1>1. x \in WorkerState /\ x.at = "events" /\ x.resolving[u] > 0 /\ x.free \in Nat
  BY WorkerFacts DEF Connect, ResolveFails, At, WorkerState
<1>2. /\ list' \in [Worker -> Seq(Url)] /\ UNCHANGED refusals
      /\ UNCHANGED <<seeding, master, filter, err, wipes, unset, marked, intact, pushed, dropped>>
  BY DEF Connect, ResolveFails, history, Inv, TypeOK
<1>3. g \in [Url -> Nat] /\ f \in [Url -> Nat]
  BY <1>1, FetchType DEF WorkerState
<1>4. CASE Connect(w, u)
  <2> DEFINE n == x.free - 1
             y == [x EXCEPT !.resolving = g, !.fetching = f, !.free = n]
  <2>1. n \in Nat
    BY <1>1, <1>4 DEF Connect
  <2>2. worker' = [worker EXCEPT ![w] = y]
    BY <1>4 DEF Connect
  <2> HIDE DEF f, g, n
  <2>3. y \in WorkerState /\ y.at = "events"
    BY <1>1, <1>3, <2>1 DEF WorkerState
  <2> QED BY <1>1, <1>2, <2>2, <2>3, RestingStep
<1>5. CASE ResolveFails(w, u)
  <2> DEFINE y == [x EXCEPT !.resolving = g]
  <2>1. worker' = [worker EXCEPT ![w] = y]
    BY <1>5 DEF ResolveFails
  <2> HIDE DEF g
  <2>2. y \in WorkerState /\ y.at = "events"
    BY <1>1, <1>3 DEF WorkerState
  <2> QED BY <1>1, <1>2, <2>1, <2>2, RestingStep
<1> QED BY <1>4, <1>5

\* A fetch ends, without the page or with it.
LEMMA FetchEndsInv ==
    ASSUME Inv, NEW w \in Worker, NEW u \in Url, FetchFails(w, u) \/ ParsePage(w, u)
    PROVE  Inv'
<1> DEFINE z == FetchEnded(worker[w], u)
<1>1. /\ worker[w] \in WorkerState /\ worker[w].at = "events" /\ worker[w].fetching[u] > 0
      /\ list' \in [Worker -> Seq(Url)] /\ UNCHANGED refusals
      /\ UNCHANGED <<seeding, master, filter, err, wipes, unset, marked, intact, pushed, dropped>>
  BY WorkerFacts DEF FetchFails, ParsePage, At, history, Inv, TypeOK
<1>2. z \in WorkerState /\ z.at = "events"
  <2> DEFINE f == [worker[w].fetching EXCEPT ![u] = worker[w].fetching[u] - 1]
             n == worker[w].free + 1
  <2>1. f \in [Url -> Nat] /\ n \in Nat
    BY <1>1, FetchType DEF WorkerState
  <2>2. z = [worker[w] EXCEPT !.fetching = f, !.free = n]
    BY DEF FetchEnded
  <2> HIDE DEF f, n, z
  <2> QED BY <1>1, <2>1, <2>2 DEF WorkerState
<1> HIDE DEF z
<1>3. CASE FetchFails(w, u)
  <2>1. worker' = [worker EXCEPT ![w] = z]
    BY <1>3 DEF FetchFails, z
  <2> QED BY <1>1, <1>2, <2>1, RestingStep
<1>4. CASE ParsePage(w, u)
  <2> DEFINE y == NextLink(z, Links[u])
             more == Allowed(wipes[w], unset[w])
  <2>1. worker' = [worker EXCEPT ![w] = y]
    BY <1>4 DEF ParsePage, z
  <2>2. ~err[w] => \A v \in Url : ~(Bits(v) \subseteq filter) => pushed[w][v] <= more[v]
    BY <1>1, WorkerFacts DEF Counted
  <2> HIDE DEF more
  <2>3. /\ y \in WorkerState /\ AtLink(y) /\ SetSoFar(y, filter, err[w])
        /\ Counted(y, filter, err[w], pushed[w], more) /\ y.at \in {"events", "check"}
    BY <1>2, <2>2, NextLinkSound, CrawlAssumption
  <2> HIDE DEF y
  <2> QED BY <1>1, <2>1, <2>3, QuietStep DEF more
<1> QED BY <1>3, <1>4

\* One GETBIT of bloom_check: a worker goes to bloom_set only for a URL with a clear bit.
LEMMA CheckInv ==
    ASSUME Inv, NEW w \in Worker, bloom_check(w)
    PROVE  Inv'
<1> DEFINE x == worker[w]
           o == Offsets[Here(x)][x.i]
           more == Allowed(wipes[w], unset[w])
<1>1. /\ x \in WorkerState /\ x.at = "check" /\ err[w] \in BOOLEAN
      /\ list' \in [Worker -> Seq(Url)] /\ (UNCHANGED refusals \/ Refused)
      /\ UNCHANGED <<seeding, master, filter, err, wipes, unset, marked, intact, pushed, dropped>>
  BY WorkerFacts DEF bloom_check, Done, Fails, At, history, Inv, TypeOK
<1>2. x.links # <<>> /\ x.i \in 1..Len(Offsets[Here(x)]) /\ x.i \in Nat
  BY <1>1, WorkerFacts DEF AtLink
<1>3. Here(x) \in Url /\ Tail(x.links) \in Seq(Url) /\ Len(Offsets[Here(x)]) \in Nat \ {0}
  BY <1>1, <1>2, HereType
<1>4. ~err[w] => \A v \in Url : ~(Bits(v) \subseteq filter) => pushed[w][v] <= more[v]
  BY <1>1, WorkerFacts DEF Counted
<1>5. \/ worker' = [worker EXCEPT ![w] = NextLink(x, Tail(x.links))]
      \/ /\ ~err[w] /\ o \notin filter
         /\ worker' = [worker EXCEPT ![w] = [x EXCEPT !.at = "set", !.i = 1, !.whole = TRUE]]
      \/ /\ ~err[w] /\ x.i # Len(Offsets[Here(x)])
         /\ worker' = [worker EXCEPT ![w] = NextOffset(x)]
  BY DEF bloom_check, Done, Offset, LastOffset, Link, Here
<1> HIDE DEF more
<1>6. CASE worker' = [worker EXCEPT ![w] = NextLink(x, Tail(x.links))]
  <2> DEFINE y == NextLink(x, Tail(x.links))
  <2>1. /\ y \in WorkerState /\ AtLink(y) /\ SetSoFar(y, filter, err[w])
        /\ Counted(y, filter, err[w], pushed[w], more) /\ y.at \in {"events", "check"}
    BY <1>1, <1>3, <1>4, NextLinkSound
  <2> QED BY <1>1, <1>6, <2>1, QuietStep DEF more
<1>7. CASE /\ ~err[w] /\ o \notin filter
           /\ worker' = [worker EXCEPT ![w] = [x EXCEPT !.at = "set", !.i = 1, !.whole = TRUE]]
  <2> DEFINE y == [x EXCEPT !.at = "set", !.i = 1, !.whole = TRUE]
  <2>1. y \in WorkerState /\ y.at = "set" /\ y.links = x.links /\ y.i = 1 /\ y.whole = TRUE
    BY <1>1 DEF WorkerState
  <2>2. worker' = [worker EXCEPT ![w] = y]
    BY <1>7
  <2> HIDE DEF y
  <2>3. AtLink(y)
    BY <1>2, <1>3, <2>1 DEF AtLink, Here
  <2>4. SetSoFar(y, filter, err[w])
    BY <2>1 DEF SetSoFar
  <2>5. Counted(y, filter, err[w], pushed[w], more)
    <3>1. ~(Bits(Here(x)) \subseteq filter)
      BY <1>2, <1>3, <1>7, BitsOf
    <3>2. pushed[w][Here(x)] <= more[Here(x)] /\ pushed[w][Here(x)] \in Nat
      BY <1>3, <1>4, <1>7, <3>1, WorkerFacts
    <3>3. Here(y) = Here(x)
      BY <2>1 DEF Here
    <3> QED BY <1>4, <1>7, <2>1, <3>2, <3>3, WorkerFacts DEF Counted
  <2> QED BY <1>1, <2>1, <2>2, <2>3, <2>4, <2>5, QuietStep DEF more
<1>8. CASE ~err[w] /\ x.i # Len(Offsets[Here(x)]) /\ worker' = [worker EXCEPT ![w] = NextOffset(x)]
  <2> DEFINE y == NextOffset(x)
  <2>1. y \in WorkerState /\ y.at = "check" /\ y.links = x.links /\ y.i = x.i + 1
    BY <1>1, NextOffsetType
  <2>2. worker' = [worker EXCEPT ![w] = y]
    BY <1>8
  <2> HIDE DEF y
  <2>3. AtLink(y)
    <3>1. x.i + 1 \in 1..Len(Offsets[Here(x)])
      BY <1>2, <1>3, <1>8
    <3> QED BY <1>2, <2>1, <3>1 DEF AtLink, Here
  <2>4. SetSoFar(y, filter, err[w]) /\ Counted(y, filter, err[w], pushed[w], more)
    BY <1>4, <2>1 DEF SetSoFar, Counted
  <2> QED BY <1>1, <2>1, <2>2, <2>3, <2>4, QuietStep DEF more
<1> QED BY <1>5, <1>6, <1>7, <1>8

\* The end of the worker.
LEMMA StopInv ==
    ASSUME Inv, NEW w \in Worker, Stop(w)
    PROVE  Inv'
<1> DEFINE y == Fresh("down")
<1>1. /\ worker[w].at # "down" /\ list' \in [Worker -> Seq(Url)] /\ UNCHANGED refusals
      /\ UNCHANGED <<seeding, master, filter, err, wipes, unset, marked, intact, pushed, dropped>>
  BY DEF Stop, history, Inv, TypeOK
<1>2. y \in WorkerState /\ y.at = "down"
  BY CrawlAssumption DEF Fresh, NoFetch, WorkerState
<1>3. worker' = [worker EXCEPT ![w] = y]
  BY DEF Stop
<1> HIDE DEF y
<1>4. /\ AtLink(y) /\ SetSoFar(y, filter, err[w])
      /\ Counted(y, filter, err[w], pushed[w], Allowed(wipes[w], unset[w]))
  BY <1>2 DEF AtLink, SetSoFar, Counted
<1> QED BY <1>1, <1>2, <1>3, <1>4, QuietStep

-----------------------------------------------------------------------------
(* The steps that write what the workers share *)

\* A SETBIT that redis answered: done, or refused.  After the last one, if none was refused and no bloom_init
\* came in between, every bit of the URL is in the filter.
LEMMA SetBitInv ==
    ASSUME Inv, NEW w \in Worker, NEW answer \in {"done", "error"}, NEW u, u = Here(worker[w]),
           worker[w].at = "set", ~err[w],
           NEW z, z = IF answer = "error" THEN [worker[w] EXCEPT !.whole = FALSE] ELSE worker[w],
           NEW y, y = IF worker[w].i = Len(Offsets[u]) THEN [z EXCEPT !.at = "push"] ELSE NextOffset(z),
           worker' = [worker EXCEPT ![w] = y],
           filter' = IF answer = "error" THEN filter ELSE filter \cup {Offsets[u][worker[w].i]},
           marked' = IF worker[w].i = Len(Offsets[u]) THEN [marked EXCEPT ![w] = @ \cup {u}] ELSE marked,
           intact' = IF worker[w].i = Len(Offsets[u]) /\ z.whole THEN intact \cup {u} ELSE intact,
           unset' = IF answer = "error" THEN [unset EXCEPT ![w][u] = @ + 1] ELSE unset,
           refusals' \in Nat, UNCHANGED <<seeding, master, list, err, wipes, pushed, dropped>>
    PROVE  Inv'
<1> DEFINE x == worker[w]
           last == x.i = Len(Offsets[u])
           refused == answer = "error"
           more == Allowed(wipes[w], unset[w])
           more2 == Allowed(wipes[w], unset'[w])
<1>1. /\ x \in WorkerState /\ x.at = "set" /\ x.links # <<>> /\ x.whole \in BOOLEAN
      /\ x.i \in 1..Len(Offsets[u]) /\ x.i \in Nat /\ wipes[w] \in Nat
      /\ unset[w] \in [Url -> Nat] /\ pushed[w] \in [Url -> Nat]
  BY WorkerFacts DEF AtLink, WorkerState
<1>2. u \in Url /\ Len(Offsets[u]) \in Nat \ {0}
  BY <1>1, HereType
<1>3. z \in WorkerState /\ z.links = x.links /\ z.at = "set" /\ z.i = x.i /\ (z.whole <=> x.whole /\ ~refused)
  <2>1. CASE refused
    BY <1>1, <2>1 DEF WorkerState
  <2>2. CASE ~refused
    BY <1>1, <2>2
  <2> QED BY <2>1, <2>2
<1>4. /\ y \in WorkerState /\ y.links = x.links /\ y.whole = z.whole
      /\ last => y.at = "push"
      /\ ~last => y.at = "set" /\ y.i = x.i + 1
  <2>1. CASE last
    <3>1. y = [z EXCEPT !.at = "push"]
      BY <2>1
    <3> QED BY <1>3, <2>1, <3>1 DEF WorkerState
  <2>2. CASE ~last
    <3>1. y = NextOffset(z)
      BY <2>2
    <3> QED BY <1>3, <2>2, <3>1, NextOffsetType
  <2> QED BY <2>1, <2>2
<1>5. Here(y) = u
  BY <1>4 DEF Here
<1>6. filter \subseteq filter'
  OBVIOUS
<1>7. /\ worker' \in [Worker -> WorkerState] /\ worker'[w] = y
      /\ \A v \in Worker \ {w} : worker'[v] = worker[v]
  BY <1>4 DEF Inv, TypeOK
<1>8. /\ unset' \in [Worker -> [Url -> Nat]] /\ \A v \in Worker \ {w} : unset'[v] = unset[v]
      /\ \A v \in Worker, m \in Url : unset[v][m] <= unset'[v][m]
      /\ refused => unset'[w][u] = unset[w][u] + 1
  <2>1. unset \in [Worker -> [Url -> Nat]]
    BY DEF Inv, TypeOK
  <2>2. CASE refused
    <3> DEFINE g == [unset[w] EXCEPT ![u] = unset[w][u] + 1]
    <3>1. g \in [Url -> Nat] /\ g[u] = unset[w][u] + 1 /\ \A m \in Url : unset[w][m] <= g[m]
      BY <1>1, <1>2
    <3>2. unset' = [unset EXCEPT ![w] = g]
      BY <2>2
    <3> HIDE DEF g
    <3>3. unset' \in [Worker -> [Url -> Nat]] /\ unset'[w] = g /\ \A v \in Worker \ {w} : unset'[v] = unset[v]
      BY <2>1, <3>1, <3>2
    <3>4. ASSUME NEW v \in Worker, NEW m \in Url PROVE unset[v][m] <= unset'[v][m]
      <4>1. unset[v][m] \in Nat
        BY <2>1
      <4> QED BY <3>1, <3>3, <4>1
    <3> QED BY <3>1, <3>3, <3>4
  <2>3. CASE ~refused
    <3>1. \A v \in Worker, m \in Url : unset[v][m] \in Nat
      BY <2>1
    <3> QED BY <2>1, <2>3, <3>1
  <2> QED BY <2>2, <2>3
<1>9. z.whole => \A k \in 1..x.i : Offsets[u][k] \in filter'
  <2> SUFFICES ASSUME z.whole, NEW k \in 1..x.i PROVE Offsets[u][k] \in filter'
    OBVIOUS
  <2>1. \A j \in 1..(x.i - 1) : Offsets[u][j] \in filter
    BY <1>1, <1>3, WorkerFacts DEF SetSoFar
  <2>2. k \in 1..(x.i - 1) \/ k = x.i
    BY <1>1, <1>2
  <2> QED BY <1>3, <2>1, <2>2
<1>10. last /\ z.whole => Bits(u) \subseteq filter'
  BY <1>2, <1>9, BitsOf
<1>11. marked' \in [Worker -> SUBSET Url] /\ \A v \in Worker \ {w} : marked'[v] = marked[v]
  BY <1>2 DEF Inv, TypeOK
<1>12. TypeOK'
  BY <1>2, <1>7, <1>8, <1>11 DEF Inv, TypeOK
<1>13. AtLink(y)
  <2>1. ~last => x.i + 1 \in 1..Len(Offsets[u])
    BY <1>1, <1>2
  <2> QED BY <1>1, <1>4, <1>5, <2>1 DEF AtLink
<1>14. SetSoFar(y, filter', err[w])
  <2>1. CASE ~last
    <3>1. y.at = "set" /\ y.i = x.i + 1
      BY <1>4, <2>1
    <3>2. y.i - 1 = x.i
      BY <1>1, <3>1
    <3>3. y.whole => \A k \in 1..(y.i - 1) : Offsets[u][k] \in filter'
      BY <1>4, <1>9, <3>2
    <3> QED BY <1>5, <3>1, <3>3 DEF SetSoFar
  <2>2. CASE last
    BY <1>4, <1>5, <1>10, <2>2 DEF SetSoFar
  <2> QED BY <2>1, <2>2
<1>15. Counted(y, filter', err[w], pushed[w], more2)
  <2>1. \A m \in Url : more[m] \in Nat /\ more2[m] \in Nat /\ more[m] <= more2[m] /\ pushed[w][m] \in Nat
    BY <1>1, <1>8, SMTT(40) DEF Allowed
  <2>2. refused => more2[u] = more[u] + 1
    <3>1. more2[u] = wipes[w] + unset'[w][u] /\ more[u] = wipes[w] + unset[w][u] /\ unset[w][u] \in Nat
      BY <1>1, <1>2 DEF Allowed
    <3> HIDE DEF more, more2
    <3> QED BY <1>1, <1>8, <3>1
  <2>3. /\ \A m \in Url : ~(Bits(m) \subseteq filter) => pushed[w][m] <= more[m]
        /\ pushed[w][u] + (IF x.whole THEN 0 ELSE 1) <= more[u]
    BY <1>1, WorkerFacts DEF Counted
  <2> HIDE DEF more, more2
  <2>4. \A m \in Url : ~(Bits(m) \subseteq filter') => pushed[w][m] <= more2[m]
    BY <1>6, <2>1, <2>3
  <2>5. pushed[w][u] + (IF y.whole THEN 0 ELSE 1) <= more2[u]
    <3>1. pushed[w][u] \in Nat /\ more[u] \in Nat /\ more2[u] \in Nat /\ more[u] <= more2[u]
      BY <1>2, <2>1
    <3>2. CASE x.whole /\ ~refused
      BY <1>3, <1>4, <2>3, <3>1, <3>2
    <3>3. CASE ~x.whole
      BY <1>3, <1>4, <2>3, <3>1, <3>3
    <3>4. CASE x.whole /\ refused
      BY <1>3, <1>4, <2>2, <2>3, <3>1, <3>4
    <3> QED BY <1>1, <3>2, <3>3, <3>4
  <2> QED BY <1>5, <2>4, <2>5 DEF Counted
<1>16. \A v \in Worker : Sound(v)'
  <2>1. Sound(w)'
    BY <1>7, <1>13, <1>14, <1>15 DEF Sound
  <2>2. ASSUME NEW v \in Worker \ {w} PROVE Sound(v)'
    <3>1. /\ SetSoFar(worker[v], filter', err[v])
          /\ Counted(worker[v], filter', err[v], pushed[v], Allowed(wipes[v], unset[v]))
      BY <1>6, WorkerFacts, SoundMonotone
    <3> QED BY <1>7, <1>8, <3>1, WorkerFacts DEF Sound
  <2> QED BY <2>1, <2>2
<1>17. master = "started"
  BY <1>1 DEF Inv, TypeOK, Before
<1>18. Before'
  BY <1>4, <1>7, <1>17 DEF Inv, Before
<1>19. NoFalseNegative'
  BY <1>6, <1>10 DEF Inv, NoFalseNegative
<1>20. PushedOncePerWipe'
  <2> SUFFICES ASSUME NEW v \in Worker, NEW m \in Url PROVE pushed[v][m] <= 1 + wipes[v] + unset'[v][m]
    BY DEF PushedOncePerWipe
  <2>1. /\ pushed[v][m] <= 1 + wipes[v] + unset[v][m] /\ pushed[v][m] \in Nat
        /\ wipes[v] \in Nat /\ unset[v][m] \in Nat
    BY DEF Inv, TypeOK, PushedOncePerWipe
  <2>2. unset[v][m] <= unset'[v][m] /\ unset'[v][m] \in Nat
    BY <1>8
  <2> QED BY <2>1, <2>2
<1>21. MarkedIsQueued'
  <2>1. \A v \in Worker \ {w} : Owed(v)' = Owed(v)
    BY <1>11 DEF Owed
  <2>2. Owed(w) = {}
    BY <1>1 DEF Inv, MarkedIsQueued, At
  <2>3. Owed(w)' \subseteq (IF last THEN {u} ELSE {})
    BY <2>2 DEF Owed, Inv, TypeOK
  <2>4. last => worker'[w].at = "push" /\ Head(worker'[w].links) = u
    BY <1>4, <1>5, <1>7 DEF Here
  <2> QED BY <1>7, <2>1, <2>3, <2>4 DEF Inv, MarkedIsQueued, At, Link
<1> QED BY <1>12, <1>16, <1>18, <1>19, <1>20, <1>21 DEF Inv

\* One SETBIT of bloom_set.
LEMMA SetInv ==
    ASSUME Inv, NEW w \in Worker, bloom_set(w)
    PROVE  Inv'
<1> DEFINE x == worker[w]
<1>1. /\ x \in WorkerState /\ x.at = "set" /\ err[w] \in BOOLEAN /\ x.whole \in BOOLEAN
      /\ list \in [Worker -> Seq(Url)] /\ UNCHANGED <<seeding, master, list, err, wipes, pushed, dropped>>
  BY WorkerFacts DEF bloom_set, At, Inv, TypeOK, WorkerState
<1>2. CASE err[w]
  <2> DEFINE y == [x EXCEPT !.at = "push"]
  <2>1. /\ worker' = [worker EXCEPT ![w] = y] /\ UNCHANGED refusals
        /\ UNCHANGED <<filter, marked, intact, unset>>
    BY <1>2 DEF bloom_set, Done
  <2>2. y \in WorkerState /\ y.at = "push" /\ y.links = x.links
    BY <1>1 DEF WorkerState
  <2> HIDE DEF y
  <2>3. /\ AtLink(y) /\ SetSoFar(y, filter, err[w])
        /\ Counted(y, filter, err[w], pushed[w], Allowed(wipes[w], unset[w]))
    BY <1>1, <1>2, <2>2, WorkerFacts DEF AtLink, SetSoFar, Counted, Here
  <2> QED BY <1>1, <2>1, <2>2, <2>3, QuietStep
<1>3. CASE ~err[w]
  <2> DEFINE u == Here(x)
             last == x.i = Len(Offsets[u])
             z(answer) == IF answer = "error" THEN [x EXCEPT !.whole = FALSE] ELSE x
             y(answer) == IF last THEN [z(answer) EXCEPT !.at = "push"] ELSE NextOffset(z(answer))
  <2>1. z("error").whole = FALSE /\ z("done").whole = x.whole
    BY <1>1 DEF WorkerState
  <2>2. PICK answer \in {"done", "error"} :
           /\ worker' = [worker EXCEPT ![w] = y(answer)]
           /\ filter' = IF answer = "error" THEN filter ELSE filter \cup {Offsets[u][x.i]}
           /\ marked' = IF last THEN [marked EXCEPT ![w] = @ \cup {u}] ELSE marked
           /\ intact' = IF last /\ z(answer).whole THEN intact \cup {u} ELSE intact
           /\ unset' = IF answer = "error" THEN [unset EXCEPT ![w][u] = @ + 1] ELSE unset
           /\ UNCHANGED refusals \/ Refused
    <3>1. CASE Done(w) /\ filter' = filter \cup {Offset(w)}
               /\ worker' = [worker EXCEPT ![w] = SetNext(w, @)] /\ SetReturns(w, worker[w].whole)
               /\ UNCHANGED unset
      <4> WITNESS "done" \in {"done", "error"}
      <4> QED BY <2>1, <3>1 DEF Done, Offset, SetNext, SetReturns, LastOffset, Link, Here
    <3>2. CASE Refused /\ worker' = [worker EXCEPT ![w] = SetNext(w, [@ EXCEPT !.whole = FALSE])]
               /\ SetReturns(w, FALSE)
               /\ unset' = [unset EXCEPT ![w][Link(w)] = @ + 1] /\ UNCHANGED filter
      <4> WITNESS "error" \in {"done", "error"}
      <4> QED BY <2>1, <3>2 DEF SetNext, SetReturns, LastOffset, Link, Here
    <3> QED BY <1>3, <3>1, <3>2 DEF bloom_set
  <2> HIDE DEF y, z
  <2>3. /\ z(answer) = IF answer = "error" THEN [x EXCEPT !.whole = FALSE] ELSE x
        /\ y(answer) = IF last THEN [z(answer) EXCEPT !.at = "push"] ELSE NextOffset(z(answer))
    BY DEF z, y
  <2>4. refusals' \in Nat
    BY <2>2, RefusalsType
  <2> QED BY <1>1, <1>3, <2>2, <2>3, <2>4, SetBitInv
<1> QED BY <1>1, <1>2, <1>3

\* The push of a link.  All its bits are in the filter unless a bloom_init came since the check or redis
\* refused one of them, and each of these allows one push more.  Pushed or refused, the worker owes it no longer.
LEMMA PushLinkInv ==
    ASSUME Inv, NEW w \in Worker, PushLink(w)
    PROVE  Inv'
<1> DEFINE x == worker[w]
           u == Here(x)
           y == NextLink(x, Tail(x.links))
           more == Allowed(wipes[w], unset[w])
<1>1. /\ x \in WorkerState /\ x.at = "push" /\ err[w] \in BOOLEAN /\ x.links # <<>>
      /\ wipes[w] \in Nat /\ unset[w] \in [Url -> Nat] /\ pushed[w] \in [Url -> Nat]
  BY WorkerFacts DEF PushLink, At, AtLink
<1>2. u \in Url /\ Tail(x.links) \in Seq(Url) /\ Link(w) = u
  BY <1>1, HereType DEF Here, Link
<1>3. /\ worker' = [worker EXCEPT ![w] = y]
      /\ UNCHANGED <<seeding, master, filter, err, wipes, unset, marked, intact>>
  BY DEF PushLink
<1>4. /\ \A m \in Url : more[m] = wipes[w] + unset[w][m] /\ more[m] \in Nat /\ pushed[w][m] \in Nat
      /\ ~err[w] => \A m \in Url : ~(Bits(m) \subseteq filter) => pushed[w][m] <= more[m]
  <2>1. \A m \in Url : more[m] = wipes[w] + unset[w][m]
    BY DEF Allowed
  <2>2. ~err[w] => \A m \in Url : ~(Bits(m) \subseteq filter) => pushed[w][m] <= more[m]
    BY <1>1, WorkerFacts DEF Counted
  <2> HIDE DEF more
  <2> QED BY <1>1, <2>1, <2>2
<1>5. CASE err[w]
  <2>1. /\ UNCHANGED <<list, pushed, dropped, refusals>> /\ list' \in [Worker -> Seq(Url)]
    BY <1>5 DEF PushLink, Done, Fails, Inv, TypeOK
  <2> HIDE DEF more
  <2>2. /\ y \in WorkerState /\ AtLink(y) /\ SetSoFar(y, filter, err[w])
        /\ Counted(y, filter, err[w], pushed[w], more) /\ y.at \in {"events", "check"}
    BY <1>1, <1>2, <1>4, NextLinkSound
  <2> HIDE DEF y
  <2> QED BY <1>1, <1>3, <1>5, <2>1, <2>2, QuietStep DEF more
<1>6. CASE ~err[w]
  <2>1. /\ \/ /\ rpush(u) /\ pushed' = [pushed EXCEPT ![w][u] = @ + 1] /\ UNCHANGED dropped
           \/ UNCHANGED <<list, pushed>> /\ dropped' = [dropped EXCEPT ![w] = @ \cup {u}]
        /\ refusals' \in Nat
    <3>1. UNCHANGED refusals \/ Refused
      BY DEF PushLink, Done, Fails
    <3> QED BY <1>2, <1>6, <3>1, RefusalsType DEF PushLink, Fails
  <2>2. /\ pushed' \in [Worker -> [Url -> Nat]] /\ list' \in [Worker -> Seq(Url)]
        /\ dropped' \in [Worker -> SUBSET Url]
        /\ \A v \in Worker \ {w} : pushed'[v] = pushed[v] /\ dropped'[v] = dropped[v]
        /\ \A m \in Url \ {u} : pushed'[w][m] = pushed[w][m]
        /\ \/ pushed'[w][u] = pushed[w][u] + 1 /\ dropped'[w] = dropped[w]
           \/ pushed'[w][u] = pushed[w][u] /\ dropped'[w] = dropped[w] \cup {u}
    <3>0. pushed \in [Worker -> [Url -> Nat]] /\ list \in [Worker -> Seq(Url)] /\ dropped \in [Worker -> SUBSET Url]
      BY DEF Inv, TypeOK
    <3>1. CASE rpush(u) /\ pushed' = [pushed EXCEPT ![w][u] = @ + 1] /\ UNCHANGED dropped
      <4> DEFINE g == [pushed[w] EXCEPT ![u] = pushed[w][u] + 1]
      <4>1. g \in [Url -> Nat] /\ g[u] = pushed[w][u] + 1 /\ \A m \in Url \ {u} : g[m] = pushed[w][m]
        BY <1>1, <1>2
      <4>2. pushed' = [pushed EXCEPT ![w] = g]
        BY <3>1
      <4> HIDE DEF g
      <4>3. pushed' \in [Worker -> [Url -> Nat]] /\ pushed'[w] = g /\ \A v \in Worker \ {w} : pushed'[v] = pushed[v]
        BY <3>0, <4>1, <4>2
      <4>4. list' \in [Worker -> Seq(Url)]
        <5>1. ListOf[u] \in Worker
          BY <1>2, CrawlAssumption
        <5>2. Append(list[ListOf[u]], u) \in Seq(Url)
          BY <1>2, <5>1, WorkerFacts
        <5> QED BY <3>0, <3>1, <5>1, <5>2 DEF rpush
      <4> QED BY <3>0, <3>1, <4>1, <4>3, <4>4
    <3>2. CASE UNCHANGED <<list, pushed>> /\ dropped' = [dropped EXCEPT ![w] = @ \cup {u}]
      BY <1>2, <3>0, <3>2
    <3> QED BY <2>1, <3>1, <3>2
  <2>3. pushed[w][u] <= more[u] /\ (~(Bits(u) \subseteq filter) => pushed[w][u] + 1 <= more[u])
    <3>1. pushed[w][u] + (IF x.whole THEN 0 ELSE 1) <= more[u]
      BY <1>1, <1>6, WorkerFacts DEF Counted
    <3>2. x.whole => Bits(u) \subseteq filter
      BY <1>1, <1>6, WorkerFacts DEF SetSoFar
    <3>3. pushed[w][u] \in Nat /\ more[u] \in Nat
      BY <1>2, <1>4
    <3> HIDE DEF more
    <3>4. CASE x.whole
      BY <3>1, <3>2, <3>3, <3>4
    <3>5. CASE ~x.whole
      BY <3>1, <3>3, <3>5
    <3> QED BY <3>4, <3>5
  <2>4. \A m \in Url : ~(Bits(m) \subseteq filter) => pushed'[w][m] <= more[m]
    <3> HIDE DEF more
    <3> TAKE m \in Url
    <3>1. CASE m = u
      BY <1>4, <2>2, <2>3, <3>1
    <3>2. CASE m # u
      BY <1>4, <1>6, <2>2, <3>2
    <3> QED BY <3>1, <3>2
  <2>5. /\ y \in WorkerState /\ AtLink(y) /\ SetSoFar(y, filter, err[w])
        /\ Counted(y, filter, err[w], pushed'[w], more) /\ y.at \in {"events", "check"}
    <3> HIDE DEF more
    <3> QED BY <1>1, <1>2, <2>4, NextLinkSound
  <2> HIDE DEF y
  <2>6. /\ worker' \in [Worker -> WorkerState] /\ worker'[w] = y
        /\ \A v \in Worker \ {w} : worker'[v] = worker[v]
    BY <1>3, <2>5 DEF Inv, TypeOK
  <2>7. TypeOK'
    BY <1>3, <2>1, <2>2, <2>6 DEF Inv, TypeOK
  <2>8. \A v \in Worker : Sound(v)'
    <3>1. Sound(w)'
      BY <1>3, <2>5, <2>6 DEF Sound
    <3>2. ASSUME NEW v \in Worker \ {w} PROVE Sound(v)'
      BY <1>3, <2>2, <2>6 DEF Inv, Sound
    <3> QED BY <3>1, <3>2
  <2>9. master = "started"
    BY <1>1 DEF Inv, TypeOK, Before
  <2>10. Before'
    <3>1. ASSUME NEW v \in Worker, worker'[v].at = "init", NEW m \in Url PROVE pushed'[v][m] = 0
      <4>1. v # w
        BY <2>5, <2>6, <3>1
      <4>2. worker[v].at = "init"
        BY <2>6, <3>1, <4>1
      <4>3. pushed[v][m] = 0
        BY <4>2 DEF Inv, Before
      <4>4. pushed'[v] = pushed[v]
        BY <2>2, <4>1
      <4> QED BY <4>3, <4>4
    <3> QED BY <1>3, <2>9, <3>1 DEF Before
  <2>11. NoFalseNegative'
    BY <1>3 DEF Inv, NoFalseNegative
  <2>12. PushedOncePerWipe'
    <3> SUFFICES ASSUME NEW v \in Worker, NEW m \in Url PROVE pushed'[v][m] <= 1 + wipes[v] + unset[v][m]
      BY <1>3 DEF PushedOncePerWipe
    <3>1. pushed[v][m] <= 1 + wipes[v] + unset[v][m]
      BY DEF Inv, PushedOncePerWipe
    <3>2. CASE v = w /\ m = u
      <4>1. more[u] = wipes[w] + unset[w][u] /\ wipes[w] \in Nat /\ unset[w][u] \in Nat /\ pushed[w][u] \in Nat
        BY <1>1, <1>2, <1>4
      <4> HIDE DEF more
      <4>2. pushed'[w][u] <= pushed[w][u] + 1 /\ pushed'[w][u] \in Nat
        BY <1>2, <2>2, <4>1
      <4> QED BY <2>3, <3>2, <4>1, <4>2
    <3>3. CASE ~(v = w /\ m = u)
      BY <2>2, <3>1, <3>3
    <3> QED BY <3>2, <3>3
  <2>13. MarkedIsQueued'
    <3>1. \A v \in Worker \ {w} : Owed(v)' = Owed(v)
      BY <1>3, <2>2 DEF Owed
    <3>2. Owed(w) \subseteq {u}
      BY <1>1, <1>2, <1>6 DEF Inv, MarkedIsQueued, At
    <3>3. marked[w] \subseteq Url
      BY DEF Inv, TypeOK
    <3>4. Owed(w)' \subseteq Owed(w) /\ u \notin Owed(w)'
      <4>1. pushed[w][u] \in Nat
        BY <1>1, <1>2
      <4>2. \A m \in marked[w] : m # u => pushed'[w][m] = pushed[w][m]
        BY <2>2, <3>3
      <4>3. u \notin Owed(w)'
        BY <2>2, <4>1 DEF Owed
      <4>4. dropped[w] \subseteq dropped'[w]
        BY <2>2
      <4> QED BY <1>3, <4>2, <4>3, <4>4 DEF Owed
    <3>5. Owed(w)' = {}
      BY <3>2, <3>4
    <3> QED BY <1>3, <2>6, <3>1, <3>5 DEF Inv, MarkedIsQueued, At, Link
  <2> QED BY <2>7, <2>8, <2>10, <2>11, <2>12, <2>13 DEF Inv
<1> QED BY <1>1, <1>5, <1>6

\* The connection of a worker fails: it will push nothing more.
LEMMA RedisFailsInv ==
    ASSUME Inv, NEW w \in Worker, RedisFails(w)
    PROVE  Inv'
<1>1. /\ err' = [err EXCEPT ![w] = TRUE]
      /\ UNCHANGED <<seeding, master, list, filter, refusals, worker, wipes, unset, marked, intact, pushed, dropped>>
  BY DEF RedisFails, history
<1>2. err' \in [Worker -> BOOLEAN] /\ err'[w] /\ \A v \in Worker : err'[v] = err[v] \/ err'[v] = TRUE
  BY <1>1 DEF Inv, TypeOK
<1>3. TypeOK' /\ Before' /\ NoFalseNegative' /\ PushedOncePerWipe'
  BY <1>1, <1>2 DEF Inv, TypeOK, Before, NoFalseNegative, PushedOncePerWipe
<1>4. \A v \in Worker : Sound(v)'
  <2> TAKE v \in Worker
  <2> DEFINE more == Allowed(wipes[v], unset[v])
  <2>1. /\ err'[v] = err[v] \/ err'[v] = TRUE
        /\ SetSoFar(worker[v], filter, err[v]) /\ Counted(worker[v], filter, err[v], pushed[v], more)
    BY <1>2, WorkerFacts
  <2> HIDE DEF more
  <2>2. SetSoFar(worker[v], filter, err'[v]) /\ Counted(worker[v], filter, err'[v], pushed[v], more)
    BY <2>1 DEF SetSoFar, Counted
  <2> QED BY <1>1, <2>2, WorkerFacts DEF Sound, more
<1>5. MarkedIsQueued'
  <2>1. \A v \in Worker : Owed(v)' = Owed(v) /\ (err[v] => err'[v])
    BY <1>1, <1>2 DEF Owed
  <2> QED BY <1>1, <2>1 DEF Inv, MarkedIsQueued, At, Link
<1> QED BY <1>3, <1>4, <1>5 DEF Inv

\* A worker starts with a record of its type.
LEMMA FreshType ==
    ASSUME NEW at \in {"down", "init", "top"}
    PROVE  Fresh(at) \in WorkerState /\ Fresh(at).at = at
BY CrawlAssumption DEF Fresh, NoFetch, WorkerState

\* bloom_init wipes the filter under the workers that run: each of them may push everything once more.
\* Refused, it only starts the worker.
LEMMA BloomInitInv ==
    ASSUME Inv, NEW w \in Worker, bloom_init(w)
    PROVE  Inv'
<1> DEFINE y == Fresh("top")
<1>1. y \in WorkerState /\ y.at = "top"
  BY FreshType
<1>2. /\ worker[w].at = "init" /\ list \in [Worker -> Seq(Url)] /\ refusals \in Nat
      /\ UNCHANGED <<seeding, master, list, err, unset, marked, pushed, dropped>>
  BY DEF bloom_init, At, Inv, TypeOK
<1>3. \A u \in Url : pushed[w][u] = 0
  BY <1>2 DEF Inv, Before
<1>4. \A v \in Worker : wipes[v] \in Nat /\ unset[v] \in [Url -> Nat] /\ pushed[v] \in [Url -> Nat]
  BY WorkerFacts
<1>5. \/ /\ filter' = {} /\ intact' = {} /\ UNCHANGED refusals
         /\ worker' = [v \in Worker |-> IF v = w THEN y ELSE [worker[v] EXCEPT !.whole = FALSE]]
         /\ wipes' = [v \in Worker |-> IF v # w /\ worker[v].at \notin {"down", "init"}
                                         THEN wipes[v] + 1 ELSE wipes[v]]
      \/ Refused /\ worker' = [worker EXCEPT ![w] = y] /\ UNCHANGED <<filter, intact, wipes>>
  BY DEF bloom_init
<1> HIDE DEF y
<1>6. AtLink(y) /\ \A bits : SetSoFar(y, bits, err[w])
  BY <1>1 DEF AtLink, SetSoFar
<1>7. ASSUME NEW n \in Nat, NEW bits PROVE Counted(y, bits, err[w], pushed[w], Allowed(n, unset[w]))
  <2>1. \A u \in Url : Allowed(n, unset[w])[u] \in Nat
    BY <1>4 DEF Allowed
  <2> QED BY <1>1, <1>3, <2>1 DEF Counted
<1>8. CASE Refused /\ worker' = [worker EXCEPT ![w] = y] /\ UNCHANGED <<filter, intact, wipes>>
  <2>1. Counted(y, filter, err[w], pushed[w], Allowed(wipes[w], unset[w]))
    BY <1>4, <1>7
  <2> QED BY <1>1, <1>2, <1>6, <1>8, <2>1, QuietStep
<1>9. CASE /\ filter' = {} /\ intact' = {} /\ UNCHANGED refusals
           /\ worker' = [v \in Worker |-> IF v = w THEN y ELSE [worker[v] EXCEPT !.whole = FALSE]]
           /\ wipes' = [v \in Worker |-> IF v # w /\ worker[v].at \notin {"down", "init"}
                                           THEN wipes[v] + 1 ELSE wipes[v]]
  <2>1. \A v \in Worker \ {w} :
           /\ worker'[v] \in WorkerState /\ worker'[v].at = worker[v].at /\ worker'[v].links = worker[v].links
           /\ worker'[v].i = worker[v].i /\ worker'[v].whole = FALSE
    <3> TAKE v \in Worker \ {w}
    <3>1. worker'[v] = [worker[v] EXCEPT !.whole = FALSE] /\ worker[v] \in WorkerState
      BY <1>9, WorkerFacts
    <3> QED BY <3>1 DEF WorkerState
  <2>2. worker'[w] = y /\ worker' \in [Worker -> WorkerState]
    BY <1>1, <1>9, <2>1
  <2>3. \A v \in Worker : /\ wipes'[v] \in Nat /\ wipes[v] <= wipes'[v]
                          /\ v # w /\ worker[v].at \notin {"down", "init"} => wipes'[v] = wipes[v] + 1
    BY <1>4, <1>9
  <2>4. TypeOK'
    <3>1. wipes' \in [Worker -> Nat]
      BY <1>9, <2>3
    <3> QED BY <1>2, <1>9, <2>2, <3>1 DEF Inv, TypeOK
  <2>5. \A v \in Worker, u \in Url :
           /\ pushed[v][u] \in Nat /\ unset[v][u] \in Nat /\ pushed[v][u] <= 1 + wipes[v] + unset[v][u]
    BY <1>4 DEF Inv, PushedOncePerWipe
  <2>6. PushedOncePerWipe'
    <3> SUFFICES ASSUME NEW v \in Worker, NEW u \in Url PROVE pushed[v][u] <= 1 + wipes'[v] + unset[v][u]
      BY <1>2 DEF PushedOncePerWipe
    <3> QED BY <1>4, <2>3, <2>5
  <2>7. Sound(w)'
    BY <1>2, <1>6, <1>7, <2>2, <2>3 DEF Sound
  <2>8. ASSUME NEW v \in Worker \ {w} PROVE Sound(v)'
    <3> DEFINE x == worker[v]
               z == worker'[v]
               more == Allowed(wipes[v], unset[v])
               more2 == Allowed(wipes'[v], unset[v])
    <3>1. /\ z.at = x.at /\ z.links = x.links /\ z.i = x.i /\ z.whole = FALSE
          /\ x \in WorkerState /\ AtLink(x) /\ Counted(x, filter, err[v], pushed[v], more)
      BY <2>1, WorkerFacts
    <3>2. \A u \in Url : more[u] = wipes[v] + unset[v][u] /\ more2[u] = wipes'[v] + unset[v][u]
      BY DEF Allowed
    <3>3. x.at \notin {"down", "init"} => wipes'[v] = wipes[v] + 1
      BY <2>3
    <3> HIDE DEF x, z, more, more2
    <3>4. AtLink(z) /\ SetSoFar(z, filter', err[v])
      BY <3>1 DEF AtLink, SetSoFar, Here
    <3>5. Counted(z, filter', err[v], pushed[v], more2)
      <4> SUFFICES ASSUME x.at \notin {"down", "init"}, ~err[v]
                   PROVE  /\ \A u \in Url : pushed[v][u] <= more2[u]
                          /\ x.at \in {"set", "push"} => pushed[v][Here(z)] + 1 <= more2[Here(z)]
        BY <3>1 DEF Counted
      <4>1. \A u \in Url : pushed[v][u] <= more2[u]
        <5> TAKE u \in Url
        <5>1. /\ pushed[v][u] \in Nat /\ unset[v][u] \in Nat /\ pushed[v][u] <= 1 + wipes[v] + unset[v][u]
              /\ wipes[v] \in Nat
          BY <1>4, <2>5
        <5> QED BY <3>2, <3>3, <5>1
      <4>2. ASSUME x.at \in {"set", "push"} PROVE pushed[v][Here(z)] + 1 <= more2[Here(z)]
        <5>1. Here(z) = Here(x) /\ Here(x) \in Url
          BY <3>1, <4>2, HereType DEF Here, AtLink
        <5>2. pushed[v][Here(x)] \in Nat /\ unset[v][Here(x)] \in Nat /\ wipes[v] \in Nat
          BY <1>4, <2>5, <5>1
        <5>3. pushed[v][Here(x)] + (IF x.whole THEN 0 ELSE 1) <= more[Here(x)]
          BY <3>1, <4>2 DEF Counted
        <5>4. pushed[v][Here(x)] <= more[Here(x)]
          BY <3>2, <5>1, <5>2, <5>3
        <5> QED BY <3>2, <3>3, <5>1, <5>2, <5>4
      <4> QED BY <4>1, <4>2
    <3> QED BY <1>2, <3>4, <3>5 DEF Sound, z, more2
  <2>9. master = "started"
    BY <1>2 DEF Inv, TypeOK, Before
  <2>10. Before'
    BY <1>1, <1>2, <2>1, <2>2, <2>9 DEF Inv, Before
  <2>11. NoFalseNegative'
    BY <1>9 DEF NoFalseNegative
  <2>12. MarkedIsQueued'
    <3> SUFFICES ASSUME NEW v \in Worker, NEW u \in Owed(v)
                 PROVE  /\ Owed(v) = {u}
                        /\ (worker'[v].at = "push" /\ Head(worker'[v].links) = u) \/ err[v] \/ worker'[v].at = "down"
      BY <1>2 DEF MarkedIsQueued, Owed, At, Link
    <3>1. /\ Owed(v) = {u}
          /\ (worker[v].at = "push" /\ Head(worker[v].links) = u) \/ err[v] \/ worker[v].at = "down"
      BY DEF Inv, MarkedIsQueued, At, Link
    <3>2. CASE v = w
      BY <1>2, <3>1, <3>2
    <3>3. CASE v # w
      BY <2>1, <3>1, <3>3
    <3> QED BY <3>2, <3>3
  <2> QED BY <2>4, <2>6, <2>7, <2>8, <2>10, <2>11, <2>12 DEF Inv
<1> QED BY <1>5, <1>8, <1>9

\* main pushes a seed, or gives up.
LEMMA PushSeedInv ==
    ASSUME Inv, PushSeed
    PROVE  Inv'
<1>1. /\ seeding # <<>> /\ seeding \in Seq(Url)
      /\ UNCHANGED <<master, filter, err, worker, wipes, unset, marked, intact, pushed, dropped>>
  BY DEF PushSeed, history, Inv, TypeOK
<1>2. Head(seeding) \in Url /\ Tail(seeding) \in Seq(Url)
  BY <1>1
<1>3. list' \in [Worker -> Seq(Url)] /\ seeding' \in Seq(Url)
  <2>1. CASE rpush(Head(seeding)) /\ seeding' = Tail(seeding)
    <3>1. ListOf[Head(seeding)] \in Worker
      BY <1>2, CrawlAssumption
    <3>2. Append(list[ListOf[Head(seeding)]], Head(seeding)) \in Seq(Url)
      BY <1>2, <3>1, WorkerFacts
    <3> QED BY <1>2, <2>1, <3>1, <3>2 DEF rpush, Inv, TypeOK
  <2>2. CASE UNCHANGED list /\ seeding' = <<>>
    BY <2>2 DEF Inv, TypeOK
  <2>3. CASE UNCHANGED list /\ seeding' = Tail(seeding)
    BY <1>2, <2>3 DEF Inv, TypeOK
  <2> QED BY <2>1, <2>2, <2>3 DEF PushSeed
<1>4. refusals' \in Nat
  BY RefusalsType DEF PushSeed
<1>5. TypeOK' /\ Before' /\ NoFalseNegative' /\ PushedOncePerWipe'
  BY <1>1, <1>3, <1>4 DEF Inv, TypeOK, Before, NoFalseNegative, PushedOncePerWipe
<1>6. \A w \in Worker : Sound(w)'
  BY <1>1 DEF Inv, Sound
<1>7. MarkedIsQueued'
  BY <1>1 DEF Inv, MarkedIsQueued, Owed, At, Link
<1> QED BY <1>5, <1>6, <1>7 DEF Inv

\* The workers start, before anything is marked or pushed.
LEMMA StartInv ==
    ASSUME Inv, start_work_processes
    PROVE  Inv'
<1>1. /\ master = "seeding" /\ master' = "started" /\ worker' = [w \in Worker |-> Fresh("init")]
      /\ UNCHANGED <<seeding, list, filter, err, refusals, wipes, unset, marked, intact, pushed, dropped>>
  BY DEF start_work_processes, history
<1>2. Fresh("init") \in WorkerState /\ Fresh("init").at = "init"
  BY FreshType
<1>3. \A w \in Worker : marked[w] = {} /\ \A u \in Url : pushed[w][u] = 0
  BY <1>1 DEF Inv, Before
<1>4. TypeOK'
  BY <1>1, <1>2 DEF Inv, TypeOK
<1>5. \A w \in Worker : Sound(w)'
  <2> TAKE w \in Worker
  <2>1. worker'[w] = Fresh("init")
    BY <1>1
  <2> QED BY <1>2, <2>1 DEF Sound, AtLink, SetSoFar, Counted
<1>6. Before' /\ NoFalseNegative' /\ PushedOncePerWipe'
  BY <1>1, <1>3 DEF Inv, Before, NoFalseNegative, PushedOncePerWipe
<1>7. MarkedIsQueued'
  BY <1>1, <1>3 DEF MarkedIsQueued, Owed
<1> QED BY <1>4, <1>5, <1>6, <1>7 DEF Inv

-----------------------------------------------------------------------------
(* The theorems *)

\* The initial state satisfies the invariant.
LEMMA InitInv == Init => Inv
<1> SUFFICES ASSUME Init PROVE Inv
  OBVIOUS
<1>1. Fresh("down") \in WorkerState /\ Fresh("down").at = "down"
  BY FreshType
<1>2. \A w \in Worker : worker[w] = Fresh("down")
  BY DEF Init
<1>3. TypeOK
  <2>1. pushed \in [Worker -> [Url -> Nat]] /\ wipes \in [Worker -> Nat] /\ unset \in [Worker -> [Url -> Nat]]
    BY DEF Init
  <2>2. worker \in [Worker -> WorkerState] /\ list \in [Worker -> Seq(Url)]
    BY <1>1 DEF Init
  <2> QED BY <2>1, <2>2, CrawlAssumption DEF Init, TypeOK
<1>4. \A w \in Worker : Sound(w)
  BY <1>1, <1>2 DEF Sound, AtLink, SetSoFar, Counted
<1>5. \A w \in Worker, u \in Url : pushed[w][u] = 0 /\ wipes[w] = 0 /\ unset[w][u] = 0
  BY DEF Init
<1>6. Before /\ NoFalseNegative /\ MarkedIsQueued
  BY <1>1, <1>2, <1>5 DEF Init, Before, NoFalseNegative, MarkedIsQueued, Owed
<1>7. PushedOncePerWipe
  BY <1>5 DEF PushedOncePerWipe
<1> QED BY <1>3, <1>4, <1>6, <1>7 DEF Inv

\* Every step keeps it.
LEMMA NextInv == Inv /\ [Next]_vars => Inv'
<1> SUFFICES ASSUME Inv, [Next]_vars PROVE Inv'
  OBVIOUS
<1>1. CASE PushSeed \/ start_work_processes
  BY <1>1, PushSeedInv, StartInv
<1>2. ASSUME NEW w \in Worker, WorkerStep(w) \/ RedisFails(w) \/ Stop(w) PROVE Inv'
  <2>1. CASE bloom_init(w) \/ bloom_check(w) \/ bloom_set(w) \/ PushLink(w)
    BY <2>1, BloomInitInv, CheckInv, SetInv, PushLinkInv
  <2>2. CASE Pop(w) \/ PopNothing(w) \/ EndRound(w) \/ RedisFails(w) \/ Stop(w)
    BY <2>2, PopInv, RedisFailsInv, StopInv
  <2>3. CASE Progress(w)
    BY <2>3, ResolvedInv, FetchEndsInv DEF Progress
  <2> QED BY <1>2, <2>1, <2>2, <2>3 DEF WorkerStep
<1>3. CASE UNCHANGED vars
  <2>1. TypeOK' /\ Before' /\ NoFalseNegative' /\ PushedOncePerWipe'
    BY <1>3 DEF vars, Inv, TypeOK, Before, NoFalseNegative, PushedOncePerWipe
  <2>2. \A w \in Worker : Sound(w)'
    BY <1>3 DEF vars, Inv, Sound
  <2>3. MarkedIsQueued'
    BY <1>3 DEF vars, Inv, MarkedIsQueued, Owed, At, Link
  <2> QED BY <2>1, <2>2, <2>3 DEF Inv
<1> QED BY <1>1, <1>2, <1>3 DEF Next

\* The inductive invariant holds.
LEMMA InvHolds == Spec => []Inv
BY InitInv, NextInv, PTL DEF Spec

\* A URL whose bits were all set since the last bloom_init is never reported as new, with any number of
\* workers, hash functions and interleaving of their GETBITs and SETBITs.
THEOREM MarkedIsRecognised == Spec => []NoFalseNegative
<1>1. Inv => NoFalseNegative
  BY DEF Inv
<1> QED BY <1>1, InvHolds, PTL

\* One worker queues a URL at most once, and once more for every bloom_init of a worker that started
\* after it and for every SETBIT of the URL that redis refused, although search_for_links checks and sets
\* without a lock.
THEOREM QueuedOncePerWipe == Spec => []PushedOncePerWipe
<1>1. Inv => PushedOncePerWipe
  BY DEF Inv
<1> QED BY <1>1, InvHolds, PTL

\* Each worker owes its list at most one URL that it has marked and whose RPUSH redis did not refuse: the one
\* it is about to push, or, if that very worker stopped or lost redis there, the one it left behind.
THEOREM MarkedOnlyIfQueued == Spec => []MarkedIsQueued
<1>1. Inv => MarkedIsQueued
  BY DEF Inv
<1> QED BY <1>1, InvHolds, PTL
===============================================================================
