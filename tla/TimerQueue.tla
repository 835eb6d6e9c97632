------------------------------ MODULE TimerQueue ------------------------------
(***************************************************************************)
(* The timers of event_timer.c with the tree taken for what it is meant to *)
(* be: it knows a timer that no other timer is due before.  The keys, the  *)
(* wrap of the clock and the lazy delay are those of the code.  EventTimer *)
(* implements this, and this implements TimerService.                      *)
(***************************************************************************)
EXTENDS TimerSettings

CONSTANT Event

VARIABLES
    current_msec, timer_set, expiring, asked,   \* as in EventTimer
    key                                         \* [Event -> key]: the node's key while the timer is set

vars == <<current_msec, timer_set, expiring, asked, key>>

Armed == {e \in Event : timer_set[e]}
Left(k) == Signed(k, current_msec)

Init ==
    /\ current_msec \in 0..(Modulus - 1) /\ expiring = FALSE
    /\ timer_set = [e \in Event |-> FALSE]
    /\ asked = [e \in Event |-> 0] /\ key = [e \in Event |-> 0]

\* The new key is so close to the old one that the timer stays
Lazily(e, new) == timer_set[e] /\ Abs(Signed(new, key[e])) < TIMER_LAZY_DELAY

event_add_timer(e, timer) ==
    LET new == (current_msec + timer) % Modulus
    IN  /\ key' = IF Lazily(e, new) THEN key ELSE [key EXCEPT ![e] = new]
        /\ timer_set' = [timer_set EXCEPT ![e] = TRUE]
        /\ asked' = [asked EXCEPT ![e] = new]
        /\ UNCHANGED <<current_msec, expiring>>

Disarm(e) ==
    /\ key' = [key EXCEPT ![e] = 0]
    /\ timer_set' = [timer_set EXCEPT ![e] = FALSE]
    /\ asked' = [asked EXCEPT ![e] = 0]
    /\ UNCHANGED <<current_msec, expiring>>

event_del_timer(e) == timer_set[e] /\ Disarm(e)

\* No other timer is due before e's
First(e) == timer_set[e] /\ \A f \in Armed : Signed(key[f], key[e]) >= 0

ExpireStart ==
    /\ ~expiring /\ expiring' = TRUE
    /\ UNCHANGED <<current_msec, timer_set, asked, key>>

Expire(e) == expiring /\ First(e) /\ Left(key[e]) <= 0 /\ Disarm(e)

ExpireDone ==
    /\ expiring /\ (Armed = {} \/ \E e \in Event : First(e) /\ Left(key[e]) > 0)
    /\ expiring' = FALSE
    /\ UNCHANGED <<current_msec, timer_set, asked, key>>

Tick(d) ==
    /\ \A e \in Armed : \A k \in {key[e], asked[e]} : Left(k) - d \in -MaxLate..MaxAhead
    /\ current_msec' = (current_msec + d) % Modulus
    /\ UNCHANGED <<timer_set, expiring, asked, key>>

Next ==
    \/ \E e \in Event, timer \in Timeouts : event_add_timer(e, timer)
    \/ \E e \in Event : event_del_timer(e) \/ Expire(e)
    \/ ExpireStart \/ ExpireDone
    \/ \E d \in Steps : Tick(d)

Spec == Init /\ [][Next]_vars

-----------------------------------------------------------------------------
\* The requests as the callers see them, by the time that is left instead of keys
left == [e \in Armed |-> Left(asked[e])]

Promise == INSTANCE TimerService WITH
    Lazy <- TIMER_LAZY_DELAY, Duration <- Timeouts, Shift <- Steps

\* Handlers are called within the lazy delay of their time and in that order, and nothing that is
\* due is left when event_expire_timers returns, although keys wrap and the expiry loop looks only
\* at one timer.
KeepsPromise == Promise!Spec
===============================================================================
