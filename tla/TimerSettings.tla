----------------------------- MODULE TimerSettings -----------------------------
(* What the timers of a worker are used with. *)
EXTENDS TimerKey

CONSTANTS
    Timeouts,           \* the TIMEOUT_... of the callers
    TIMER_LAZY_DELAY,
    Steps,              \* how far the clock may move in one step; it may be set back
    MaxLate, MaxAhead   \* bounds: how late a timer may become, and how far ahead it may lie

ASSUME TimerAssumption ==
    /\ Timeouts \subseteq 1..MaxAhead /\ Steps \subseteq Int
    /\ TIMER_LAZY_DELAY \in Nat \ {0} /\ MaxLate \in Nat /\ MaxAhead \in Nat
    /\ MaxLate + MaxAhead + TIMER_LAZY_DELAY < Modulus \div 2
===============================================================================
