-------------------------------- MODULE TimerKey --------------------------------
(***************************************************************************)
(* The keys of the timers: points in time, in milliseconds modulo Modulus  *)
(* (2^32 in the code), that are compared by their signed difference.       *)
(***************************************************************************)
EXTENDS Integers

CONSTANT Modulus

ASSUME ModulusAssumption == Modulus \in Nat /\ Modulus > 1 /\ Modulus % 2 = 0

\* (rbtree_key_int_t) (a - b)
Signed(a, b) ==
    LET d == (a - b) % Modulus IN IF d < Modulus \div 2 THEN d ELSE d - Modulus

Abs(x) == IF x < 0 THEN -x ELSE x
===============================================================================
