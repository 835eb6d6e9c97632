------------------------------ MODULE CrawlQueue ------------------------------
(***************************************************************************)
(* What the worker processes share through redis: one list of URLs per     *)
(* worker, to which a URL is hashed, and the bloom filter of URLs already  *)
(* queued (redis_func.c, bloom_filter.c, search_for_links and parse_html   *)
(* of html_parser.c, get_url_seed and the loop of process_cycle.c).        *)
(* A redis command is atomic, so it is one action; a worker runs the       *)
(* commands of one page one after the other, and the workers interleave.   *)
(*                                                                         *)
(* Abstracted: a fetch (see DnsResolver and EventLoop) is a name being     *)
(* resolved, then a connection in use; the HTML (a page is the sequence of *)
(* its links); the hashes (functions given as constants); the list         *)
(* parse_done, which nobody reads.                                         *)
(*                                                                         *)
(* A command fails in two ways.  The connection is lost: ctx->err stays    *)
(* set and nothing reconnects.  Or redis answers with an error (read-only, *)
(* out of memory, a value of another type): RPUSH, SETBIT and BITOP then   *)
(* count as done, since nobody looks at the reply.                         *)
(***************************************************************************)
EXTENDS Naturals, Sequences, SequencesExt

CONSTANTS
    Worker,     \* the work processes
    Url,
    Seed,       \* the seeds of settings.lua, in order
    Links,      \* [Url -> Seq(Url)]: the links search_for_links finds on the page
    Offsets,    \* [Url -> Seq(offset)]: the bits of a URL, one per hash seed
    ListOf,     \* [Url -> Worker]: MurmurHash3_x86_32(url) % work_processes
    connection_n,           \* the connections of a worker's pool, without the resolver's
    connection_threshold,   \* of settings.lua
    MaxRefusals             \* bound: commands that redis answers with an error

ASSUME CrawlAssumption ==
    /\ Seed \in Seq(Url) /\ Links \in [Url -> Seq(Url)] /\ ListOf \in [Url -> Worker]
    /\ Offsets \in [Url -> Seq(Nat)] /\ \A u \in Url : Len(Offsets[u]) > 0
    /\ connection_n \in Nat /\ connection_threshold \in Nat /\ MaxRefusals \in Nat

VARIABLES
    seeding,    \* the seeds main has still to push; workers are forked when it is done
    master,     \* "seeding" or "started"
    list,       \* [Worker -> Seq(Url)]: url_list_<n>
    filter,     \* the bits set in bloom_filter
    err,        \* [Worker -> BOOLEAN]: ctx->err, which stays set: there is no reconnect
    refusals,   \* commands answered with an error so far
    worker,     \* [Worker -> record], see Fresh
    wipes,      \* history: [Worker -> Nat]: bloom_init runs of OTHER workers since this one's
    unset,      \* history: [Worker -> [Url -> Nat]]: SETBITs for a URL answered with an error
    marked,     \* history: [Worker -> SUBSET Url]: URLs whose bloom_set() returned 0
    intact,     \* history: URLs whose bits were all set after the last bloom_init
    pushed,     \* history: [Worker -> [Url -> Nat]]: successful pushes of a link
    dropped     \* history: [Worker -> SUBSET Url]: links whose RPUSH was answered with an error

vars == <<seeding, master, list, filter, err, refusals, worker, wipes, unset, marked, intact,
          pushed, dropped>>
history == <<wipes, unset, marked, intact, pushed, dropped>>

\* at: where the worker is; resolving and fetching: how many fetches of a URL wait for the resolver
\* and have a connection; free: free_connection_n; links: the links of the page being parsed still
\* to look at; i: the loop index of bloom_check or bloom_set; whole: every SETBIT of this bloom_set
\* was done and no bloom_init came in between
NoFetch == [u \in Url |-> 0]
Fresh(at) == [at |-> at, resolving |-> NoFetch, fetching |-> NoFetch, free |-> connection_n,
              links |-> <<>>, i |-> 1, whole |-> TRUE]

Init ==
    /\ seeding = Seed /\ master = "seeding"
    /\ list = [w \in Worker |-> <<>>]
    /\ filter = {} /\ refusals = 0
    /\ err = [w \in Worker |-> FALSE]
    /\ worker = [w \in Worker |-> Fresh("down")]
    /\ wipes = [w \in Worker |-> 0] /\ unset = [w \in Worker |-> [u \in Url |-> 0]]
    /\ marked = [w \in Worker |-> {}] /\ intact = {}
    /\ pushed = [w \in Worker |-> [u \in Url |-> 0]] /\ dropped = [w \in Worker |-> {}]

-----------------------------------------------------------------------------
\* redis answers a command with an error
Refused == refusals < MaxRefusals /\ refusals' = refusals + 1

\* The command of a worker is done; it fails
Done(w) == ~err[w] /\ UNCHANGED refusals
Fails(w) == (err[w] /\ UNCHANGED refusals) \/ (~err[w] /\ Refused)

\* redis_list_rpush
rpush(u) == list' = [list EXCEPT ![ListOf[u]] = Append(@, u)]

\* get_url_seed: a seed goes to its list without a look at the bloom filter; a lost connection
\* ends it, and main goes on to start the workers; a seed that redis refuses is skipped
PushSeed ==
    /\ master = "seeding" /\ seeding # <<>>
    /\ \/ rpush(Head(seeding)) /\ seeding' = Tail(seeding) /\ UNCHANGED refusals
       \/ UNCHANGED <<list, refusals>> /\ seeding' = <<>>
       \/ Refused /\ UNCHANGED list /\ seeding' = Tail(seeding)
    /\ UNCHANGED <<master, filter, err, worker, history>>

start_work_processes ==
    /\ master = "seeding" /\ seeding = <<>>
    /\ master' = "started"
    /\ worker' = [w \in Worker |-> Fresh("init")]
    /\ UNCHANGED <<seeding, list, filter, err, refusals, history>>

At(w, at) == worker[w].at = at

\* bloom_init, by every worker when it starts: BITOP XOR of the filter with itself clears it for
\* the workers that are running already; refused, it clears nothing, and the worker starts
bloom_init(w) ==
    /\ At(w, "init") /\ ~err[w]
    /\ \/ /\ filter' = {} /\ intact' = {} /\ UNCHANGED refusals
          /\ worker' = [v \in Worker |-> IF v = w THEN Fresh("top")
                                                 ELSE [worker[v] EXCEPT !.whole = FALSE]]
          /\ wipes' = [v \in Worker |-> IF v # w /\ worker[v].at \notin {"down", "init"}
                                          THEN wipes[v] + 1 ELSE wipes[v]]
       \/ /\ Refused /\ worker' = [worker EXCEPT ![w] = Fresh("top")]
          /\ UNCHANGED <<filter, intact, wipes>>
    /\ UNCHANGED <<seeding, master, list, err, unset, marked, pushed, dropped>>

\* Admission, at the top of a round: names still being resolved do not count
Admitted(w) == worker[w].free > connection_threshold

\* llen and lpop, and dns_query: this worker is the only consumer of its list
Pop(w) ==
    /\ At(w, "top") /\ Admitted(w) /\ Done(w) /\ list[w] # <<>>
    /\ list' = [list EXCEPT ![w] = Tail(@)]
    /\ worker' = [worker EXCEPT ![w].resolving[Head(list[w])] = @ + 1, ![w].at = "events"]
    /\ UNCHANGED <<seeding, master, filter, err, history>>

\* A round without a URL: not admitted, nothing in the list, or llen or lpop fails
PopNothing(w) ==
    /\ At(w, "top")
    /\ \/ (~Admitted(w) \/ list[w] = <<>>) /\ UNCHANGED refusals
       \/ Admitted(w) /\ Fails(w)
    /\ worker' = [worker EXCEPT ![w].at = "events"]
    /\ UNCHANGED <<seeding, master, list, filter, err, history>>

\* event_process and event_expire_timers return
EndRound(w) ==
    /\ At(w, "events")
    /\ worker' = [worker EXCEPT ![w].at = "top"]
    /\ UNCHANGED <<seeding, master, list, filter, err, refusals, history>>

\* The name is resolved, and http_client_create finds a free connection
Connect(w, u) ==
    /\ At(w, "events") /\ worker[w].resolving[u] > 0 /\ worker[w].free > 0
    /\ worker' = [worker EXCEPT ![w].resolving[u] = @ - 1, ![w].fetching[u] = @ + 1, ![w].free = @ - 1]
    /\ UNCHANGED <<seeding, master, list, filter, err, refusals, history>>

\* The resolver gives up, or its answer finds no free connection: the URL is gone
ResolveFails(w, u) ==
    /\ At(w, "events") /\ worker[w].resolving[u] > 0
    /\ worker' = [worker EXCEPT ![w].resolving[u] = @ - 1]
    /\ UNCHANGED <<seeding, master, list, filter, err, refusals, history>>

\* Mutant of FetchEnded: the connection is not given back
FetchLeaks(s, u) == [s EXCEPT !.fetching[u] = @ - 1]

\* One fetch of the URL is over, and http_client_retrieve frees its connection (for a page at the
\* end of parse_html, until when nobody looks)
FetchEnded(s, u) == [s EXCEPT !.fetching[u] = @ - 1, !.free = @ + 1]

\* The fetch failed: http_client_retrieve, and nothing says so in redis
FetchFails(w, u) ==
    /\ At(w, "events") /\ worker[w].fetching[u] > 0
    /\ worker' = [worker EXCEPT ![w] = FetchEnded(@, u)]
    /\ UNCHANGED <<seeding, master, list, filter, err, refusals, history>>

\* Where the worker goes with the links that are left; the rpush to parse_done ends the page
NextLink(s, links) ==
    [s EXCEPT !.links = links, !.i = 1, !.at = IF links = <<>> THEN "events" ELSE "check"]

\* parse_html of a page that arrived
ParsePage(w, u) ==
    /\ At(w, "events") /\ worker[w].fetching[u] > 0
    /\ worker' = [worker EXCEPT ![w] = NextLink(FetchEnded(@, u), Links[u])]
    /\ UNCHANGED <<seeding, master, list, filter, err, refusals, history>>

Link(w) == Head(worker[w].links)
Offset(w) == Offsets[Link(w)][worker[w].i]
\* Mutant of LastOffset: the last hash seed is left out
LastButOne(w) == worker[w].i = Len(Offsets[Link(w)]) - 1

LastOffset(w) == worker[w].i = Len(Offsets[Link(w)])

\* The loop over the hash seeds goes on
NextOffset(s) == [s EXCEPT !.i = @ + 1]

\* Mutants of bloom_check: a new URL is queued without bloom_set; a known URL is looked at again
CheckWithoutSet(w) ==
    /\ At(w, "check")
    /\ worker' = [worker EXCEPT ![w] =
          IF ~err[w] /\ Offset(w) \notin filter THEN [@ EXCEPT !.at = "push"]
          ELSE NextLink(@, Tail(@.links))]
    /\ UNCHANGED <<seeding, master, list, filter, err, refusals, history>>
CheckStays(w) ==
    /\ At(w, "check")
    /\ worker' = [worker EXCEPT ![w] =
          IF Offset(w) \notin filter THEN [@ EXCEPT !.at = "set", !.i = 1, !.whole = TRUE]
          ELSE NextLink(@, @.links)]
    /\ UNCHANGED <<seeding, master, list, filter, err, refusals, history>>

\* bloom_check, one GETBIT: a clear bit sends the URL to bloom_set, the last set bit or a failure
\* (-1 is not 0) to the next link
bloom_check(w) ==
    /\ At(w, "check")
    /\ \/ /\ Done(w)
          /\ worker' = [worker EXCEPT ![w] =
                IF Offset(w) \notin filter THEN [@ EXCEPT !.at = "set", !.i = 1, !.whole = TRUE]
                ELSE IF LastOffset(w) THEN NextLink(@, Tail(@.links))
                ELSE NextOffset(@)]
       \/ Fails(w) /\ worker' = [worker EXCEPT ![w] = NextLink(@, Tail(@.links))]
    /\ UNCHANGED <<seeding, master, list, filter, err, history>>

\* bloom_set after a SETBIT that redis answered, or has lost the connection for
SetNext(w, s) == IF LastOffset(w) THEN [s EXCEPT !.at = "push"] ELSE NextOffset(s)
SetReturns(w, whole) ==
    /\ marked' = IF LastOffset(w) THEN [marked EXCEPT ![w] = @ \cup {Link(w)}] ELSE marked
    /\ intact' = IF LastOffset(w) /\ whole THEN intact \cup {Link(w)} ELSE intact

\* bloom_set, one SETBIT: search_for_links does not look at its result, and it not at the reply
bloom_set(w) ==
    /\ At(w, "set")
    /\ \/ /\ Done(w) /\ filter' = filter \cup {Offset(w)}
          /\ worker' = [worker EXCEPT ![w] = SetNext(w, @)] /\ SetReturns(w, worker[w].whole)
          /\ UNCHANGED unset
       \/ /\ ~err[w] /\ Refused
          /\ worker' = [worker EXCEPT ![w] = SetNext(w, [@ EXCEPT !.whole = FALSE])]
          /\ SetReturns(w, FALSE)
          /\ unset' = [unset EXCEPT ![w][Link(w)] = @ + 1] /\ UNCHANGED filter
       \/ /\ err[w] /\ worker' = [worker EXCEPT ![w].at = "push"]
          /\ UNCHANGED <<filter, refusals, marked, intact, unset>>
    /\ UNCHANGED <<seeding, master, list, err, wipes, pushed, dropped>>

\* Mutant of PushLink: only links of the worker's own list are queued
PushOwn(w) ==
    /\ At(w, "push")
    /\ IF err[w] \/ ListOf[Link(w)] # w THEN UNCHANGED <<list, pushed>>
         ELSE rpush(Link(w)) /\ pushed' = [pushed EXCEPT ![w][Link(w)] = @ + 1]
    /\ worker' = [worker EXCEPT ![w] = NextLink(@, Tail(@.links))]
    /\ UNCHANGED <<seeding, master, filter, err, refusals, wipes, unset, marked, intact, dropped>>

\* rpush of the link; without a connection the rest of this subtree is skipped (every later command
\* of the worker fails as well, so skipping one link or several is the same); a refused RPUSH counts
\* as done
PushLink(w) ==
    /\ At(w, "push")
    /\ \/ /\ Done(w) /\ rpush(Link(w))
          /\ pushed' = [pushed EXCEPT ![w][Link(w)] = @ + 1] /\ UNCHANGED dropped
       \/ /\ Fails(w) /\ UNCHANGED <<list, pushed>>
          /\ dropped' = IF err[w] THEN dropped ELSE [dropped EXCEPT ![w] = @ \cup {Link(w)}]
    /\ worker' = [worker EXCEPT ![w] = NextLink(@, Tail(@.links))]
    /\ UNCHANGED <<seeding, master, filter, err, wipes, unset, marked, intact>>

\* The connection to redis fails (a timeout, a restart of the server)
RedisFails(w) ==
    /\ worker[w].at # "down" /\ ~err[w]
    /\ err' = [err EXCEPT ![w] = TRUE]
    /\ UNCHANGED <<seeding, master, list, filter, refusals, worker, history>>

\* The worker dies, is told to quit, or finds redis gone in bloom_init: the master does not
\* start another one, and the URLs it was fetching are gone
Stop(w) ==
    /\ worker[w].at # "down"
    /\ worker' = [worker EXCEPT ![w] = Fresh("down")]
    /\ UNCHANGED <<seeding, master, list, filter, err, refusals, history>>

\* A name or a page comes to something
Progress(w) == \E u \in Url : Connect(w, u) \/ ResolveFails(w, u) \/ FetchFails(w, u) \/ ParsePage(w, u)

WorkerStep(w) ==
    \/ bloom_init(w) \/ Pop(w) \/ PopNothing(w) \/ EndRound(w) \/ Progress(w)
    \/ bloom_check(w) \/ bloom_set(w) \/ PushLink(w)

Next ==
    \/ PushSeed \/ start_work_processes
    \/ \E w \in Worker : WorkerStep(w) \/ RedisFails(w) \/ Stop(w)

\* Every running worker goes on with its rounds, and the timers see to it that queries and clients do
\* not stay for ever (QueriesEnd of DnsResolver, EveryClientRetrieved of EventLoopLive); they can end
\* only in one part of a round, hence SF
Fairness ==
    /\ WF_vars(PushSeed) /\ WF_vars(start_work_processes)
    /\ \A w \in Worker : WF_vars(WorkerStep(w)) /\ SF_vars(Progress(w))

Spec == Init /\ [][Next]_vars /\ Fairness

-----------------------------------------------------------------------------
(* Properties *)

Running(w) == worker[w].at \notin {"down", "init"}
Bits(u) == Range(Offsets[u])

\* bloom_set and bloom_check: a URL whose bloom_set() set every bit, with no bloom_init() since it
\* began, is never reported as new, whatever the other workers do meanwhile.
NoFalseNegative == \A u \in intact : Bits(u) \subseteq filter

\* search_for_links checks and sets without a lock, so two workers may both queue a URL; but one
\* worker queues a URL at most once, plus once for every bloom_init() of a worker that started
\* after it and for every SETBIT of that URL that redis refused.
PushedOncePerWipe ==
    \A w \in Worker, u \in Url : pushed[w][u] <= 1 + wipes[w] + unset[w][u]

\* The URLs a worker has marked and not queued, but for those whose RPUSH redis answered with an error
Owed(w) == {u \in marked[w] \ dropped[w] : pushed[w][u] = 0}

\* bloom_set and then rpush: a worker owes its list at most one URL, the one it is about to push,
\* and leaves it owed only if that very worker stops or loses redis there.  Neither costs more than one
\* URL, although the worker runs on without redis; what other workers do does not matter.
MarkedIsQueued ==
    \A w \in Worker : \A u \in Owed(w) :
       /\ Owed(w) = {u}
       /\ (At(w, "push") /\ Link(w) = u) \/ err[w] \/ At(w, "down")

\* bloom_filter.c on a clear bit: the string has not been bloom_set().
ClearBitMeansNotSet ==
    [][\A w \in Worker : At(w, "check") /\ worker'[w].at = "set" =>
          \A v \in Worker : Link(w) \notin marked[v]]_vars

\* A queued URL is taken from its list, unless the list's worker stops or loses redis: the admission
\* test of work_process_cycle does not shut for ever, since every connection comes back.
QueuedIsTaken ==
    \A u \in Url : (u \in Range(list[ListOf[u]]) /\ Running(ListOf[u])) ~>
       (u \notin Range(list[ListOf[u]]) \/ err[ListOf[u]] \/ ~Running(ListOf[u]))

\* The pages link to each other in cycles, yet the crawl of a finite site ends: every worker that
\* still runs and has redis comes to rest with an empty list and nothing under way.
CrawlEnds ==
    <>[](\A w \in Worker : Running(w) /\ ~err[w] =>
            worker[w].at \in {"top", "events"} /\ list[w] = <<>> /\ worker[w].free = connection_n)
=============================================================================
