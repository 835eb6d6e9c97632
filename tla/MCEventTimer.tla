------------------------------ MODULE MCEventTimer ------------------------------
(* Instances of EventTimer for TLC.                                              *)
EXTENDS EventTimer, TLC

CONSTANTS e1, e2

\* The clock runs, or is set back by a unit
MCSteps == {1, -1}

\* Events are interchangeable
EventSymmetry == Permutations(Node)
===============================================================================
