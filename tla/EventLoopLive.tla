----------------------------- MODULE EventLoopLive -----------------------------
(***************************************************************************)
(* Liveness of the worker.  Every batch of bytes a server sends may set    *)
(* the connection's timer again, so a server that goes on for ever keeps   *)
(* its connection for ever.  The environment of this module is therefore   *)
(* EventLoop's with a bound on how often one client's connection is        *)
(* reported by epoll_wait; the edge of a connect() is always reported.     *)
(***************************************************************************)
EXTENDS EventLoop

CONSTANT MaxReports     \* bound on the reports for one client

ASSUME MaxReportsAssumption == MaxReports \in Nat

VARIABLE left           \* [Client -> 0..MaxReports]: reports still allowed

liveVars == <<vars, left>>

LiveInit == Init /\ left = [u \in Client |-> MaxReports]

\* The clients this epoll_wait reports, other than by the edge of their connect()
Reported == {u \in Client : \E c \in Conn : data[c] = u /\ revents'[c] # {} /\ ~edge[c]}

BoundedStep(A) ==
    /\ A
    /\ left' = [u \in Client |-> IF pc = "wait" /\ pc' = "batch" /\ u \in Reported
                                   THEN left[u] - 1 ELSE left[u]]
    /\ \A u \in Client : left'[u] \in 0..MaxReports

LiveNext == BoundedStep(Next)

\* The worker is one thread that is never blocked for longer than the second of its epoll_wait,
\* hence WF of its steps.  A timer that is set and not set again expires in some later round,
\* and the kernel reports a due edge in some later epoll_wait: neither is enabled continuously
\* (the loop passes through other phases), hence SF.
Fairness ==
    /\ WF_liveVars(BoundedStep(LoopStep))
    /\ \A c \in Conn : /\ SF_liveVars(BoundedStep(ExpireRead(c)))
                       /\ SF_liveVars(BoundedStep(ExpireWrite(c)))
                       /\ SF_liveVars(BoundedStep(epoll_wait /\ edge[c] /\ revents'[c] # {}))

LiveSpec == LiveInit /\ [][LiveNext]_liveVars /\ Fairness

\* http_client.c: a client, once its connection is open, is retrieved (with its page or without),
\* or the worker is told to quit.
EveryClientRetrieved ==
    \A u \in Client : client[u].life = "live" ~> (client[u].life # "live" \/ pc = "exit")

\* work_process_cycle: after SIGINT the worker finishes its round and exits.
QuitTerminates == crawler_quit ~> pc = "exit"
=============================================================================
