------------------------------ MODULE MCEventLoop ------------------------------
(* Instances of EventLoop for TLC.                                           *)
EXTENDS EventLoopFetch, TLC

CONSTANTS h1, h2, h3, s1, s2

\* Clients of the same kind are interchangeable
PlainSymmetry == Permutations(Client \ Https)
=============================================================================
