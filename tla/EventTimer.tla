------------------------------- MODULE EventTimer -------------------------------
(***************************************************************************)
(* The timers of a worker (event_timer.c, event_timer.h) on the red-black  *)
(* tree: keys are the low bits of the wall clock in milliseconds and wrap  *)
(* at Modulus, and a timer that moves by less than TIMER_LAZY_DELAY stays  *)
(* where it is.  The handlers that event_expire_timers calls set and       *)
(* delete timers themselves, so these actions are possible at any time.    *)
(***************************************************************************)
EXTENDS RbTree, TimerSettings

VARIABLES
    current_msec,       \* the clock, as gettimeofday gives it, modulo Modulus
    tree,               \* event_timer_rbtree
    timer_set,          \* [Node -> BOOLEAN]: ev->timer_set
    expiring,           \* event_expire_timers is in its loop
    asked               \* history: the key each event asked for last

vars == <<current_msec, tree, timer_set, expiring, asked>>

Armed == {e \in Node : timer_set[e]}
Left(key) == Signed(key, current_msec)

Init ==
    /\ current_msec \in 0..(Modulus - 1) /\ tree = EmptyTree
    /\ timer_set = [e \in Node |-> FALSE] /\ expiring = FALSE
    /\ asked = [e \in Node |-> 0]

\* The new key is so close to the old one that the timer stays
Lazily(e, key) == timer_set[e] /\ Abs(Signed(key, tree.key[e])) < TIMER_LAZY_DELAY

\* internal_event_add_timer
event_add_timer(e, timer) ==
    LET key == (current_msec + timer) % Modulus
        t   == IF timer_set[e] THEN rbtree_delete(tree, e) ELSE tree
    IN  /\ tree' = IF Lazily(e, key) THEN tree ELSE rbtree_insert([t EXCEPT !.key[e] = key], e)
        /\ timer_set' = [timer_set EXCEPT ![e] = TRUE]
        /\ asked' = [asked EXCEPT ![e] = key]
        /\ UNCHANGED <<current_msec, expiring>>

\* rbtree_delete and the fields of the event
Disarm(e) ==
    /\ tree' = rbtree_delete(tree, e)
    /\ timer_set' = [timer_set EXCEPT ![e] = FALSE]
    /\ asked' = [asked EXCEPT ![e] = 0]

\* internal_event_del_timer; callers test timer_set
event_del_timer(e) == timer_set[e] /\ Disarm(e) /\ UNCHANGED <<current_msec, expiring>>

\* work_process_cycle calls event_expire_timers
ExpireStart ==
    /\ ~expiring /\ expiring' = TRUE
    /\ UNCHANGED <<current_msec, tree, timer_set, asked>>

\* Mutant of Due: the root is taken for the earliest timer
DueRoot == IF tree.root # sentinel /\ Left(tree.key[tree.root]) <= 0 THEN {tree.root} ELSE {}

\* The earliest timer, when it is due
Due ==
    IF tree.root = sentinel THEN {}
    ELSE LET node == rbtree_min(tree, tree.root)
         IN  IF Left(tree.key[node]) > 0 THEN {} ELSE {node}

\* One round of the loop of event_expire_timers, up to the call of the handler
Expire(e) ==
    /\ expiring /\ e \in Due
    /\ Disarm(e) /\ UNCHANGED <<current_msec, expiring>>

ExpireDone ==
    /\ expiring /\ Due = {}
    /\ expiring' = FALSE /\ UNCHANGED <<current_msec, tree, timer_set, asked>>

\* One round of the loop of event_cancel_timers, which the program does not call so far: the
\* earliest timer is removed, due or not, before its handler runs
CancelFirst(e) ==
    /\ tree.root # sentinel /\ e = rbtree_min(tree, tree.root)
    /\ Disarm(e) /\ UNCHANGED <<current_msec, expiring>>

\* The clock moves; within the bounds, since a round of the loop takes about a second
Tick(d) ==
    /\ \A e \in Armed : \A k \in {tree.key[e], asked[e]} : Left(k) - d \in -MaxLate..MaxAhead
    /\ current_msec' = (current_msec + d) % Modulus
    /\ UNCHANGED <<tree, timer_set, expiring, asked>>

Next ==
    \/ \E e \in Node, timer \in Timeouts : event_add_timer(e, timer)
    \/ \E e \in Node : event_del_timer(e) \/ Expire(e) \/ CancelFirst(e)
    \/ ExpireStart \/ ExpireDone
    \/ \E d \in Steps : Tick(d)

Spec == Init /\ [][Next]_vars

-----------------------------------------------------------------------------
\* What the tree is for: a queue that knows its earliest timer
Queue == INSTANCE TimerQueue WITH
    Event <- Node, key <- [e \in Node |-> IF timer_set[e] THEN tree.key[e] ELSE 0]

\* The timers implement TimerQueue, and with it TimerService: handlers are called within the lazy
\* delay of their time and in that order, and nothing that is due is left when event_expire_timers
\* returns, although keys wrap and the loop looks only at the leftmost node of the tree.
KeepsPromise == Queue!Spec /\ Queue!KeepsPromise
===============================================================================
