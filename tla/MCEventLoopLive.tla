---------------------------- MODULE MCEventLoopLive ----------------------------
(* Instance of EventLoopLive for TLC: one plain and one https client.        *)
EXTENDS EventLoopLive

CONSTANTS h1, s1
=============================================================================
