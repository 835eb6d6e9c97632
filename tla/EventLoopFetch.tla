---------------------------- MODULE EventLoopFetch ----------------------------
(* The worker of EventLoop, seen as the service FetchService promises.        *)
EXTENDS EventLoop

FetchSlot == Conn \ {dns_conn}

\* http_client_create to http_client_retrieve, without what happens in between
fetchLife == [u \in Client |-> client[u].life]

\* c->data of a connection in use; the link of a free one is nobody's business
fetchOwner == [c \in FetchSlot |-> IF fd[c] THEN data[c] ELSE NULL]

Fetch == INSTANCE FetchService
    WITH Url <- Client, Slot <- FetchSlot, life <- fetchLife, owner <- fetchOwner

\* http_conn and http_client_retrieve, whatever the order of events, errors, timers and DNS
\* answers: a URL gets a slot that nobody has, keeps it until it is parsed or failed, gives it
\* back in that same step, and is never fetched again.
FetchesOnce == Fetch!Spec
=============================================================================
