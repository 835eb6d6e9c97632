----------------------------- MODULE TimerService -----------------------------
(***************************************************************************)
(* What the timers promise their callers, without keys, clocks that wrap   *)
(* or a tree: a request runs out at about its time, earliest first, and    *)
(* event_expire_timers leaves nothing behind that is due.  "About" is the  *)
(* lazy delay of event_add_timer: a request that moves a timer by less     *)
(* than Lazy may be ignored.                                               *)
(***************************************************************************)
EXTENDS Integers

CONSTANTS
    Event,
    Lazy,
    Duration,   \* what may be asked for
    Shift       \* how far the clock may move at once

VARIABLES
    left,       \* [set of events with a request -> time left until it is due]
    expiring    \* event_expire_timers is running

vars == <<left, expiring>>

Init == left = [e \in {} |-> 0] /\ expiring = FALSE

Request(e, t) ==
    left' = [f \in DOMAIN left \cup {e} |-> IF f = e THEN t ELSE left[f]] /\ UNCHANGED expiring

Without(e) == left' = [f \in DOMAIN left \ {e} |-> left[f]]

Cancel(e) == e \in DOMAIN left /\ Without(e) /\ UNCHANGED expiring

Begin == ~expiring /\ expiring' = TRUE /\ UNCHANGED left

\* A handler is called not much before its time, nor much before the others' turn
Expire(e) ==
    /\ expiring /\ e \in DOMAIN left
    /\ left[e] < Lazy
    /\ \A f \in DOMAIN left : left[e] - left[f] <= 2 * (Lazy - 1)
    /\ Without(e) /\ UNCHANGED expiring

Done ==
    /\ expiring /\ \A e \in DOMAIN left : left[e] > 1 - Lazy
    /\ expiring' = FALSE /\ UNCHANGED left

\* Time passes, or the clock is set back
Elapse(d) == left' = [e \in DOMAIN left |-> left[e] - d] /\ UNCHANGED expiring

Next ==
    \/ \E e \in Event, t \in Duration : Request(e, t)
    \/ \E e \in Event : Cancel(e) \/ Expire(e)
    \/ Begin \/ Done
    \/ \E d \in Shift : Elapse(d)

Spec == Init /\ [][Next]_vars
===============================================================================
