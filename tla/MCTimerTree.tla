------------------------------ MODULE MCTimerTree ------------------------------
(* Instances of TimerTree for TLC.                                             *)
EXTENDS TimerTree, TLC

\* Seven keys around the wrap at 32, two of them equal, in no particular order
MCKeyOf == (1 :> 31) @@ (2 :> 3) @@ (3 :> 28) @@ (4 :> 0) @@ (5 :> 3) @@ (6 :> 30)
             @@ (7 :> 6)
===============================================================================
