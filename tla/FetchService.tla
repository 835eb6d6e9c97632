----------------------------- MODULE FetchService -----------------------------
(***************************************************************************)
(* What a worker promises for the URLs it takes from its list: each is     *)
(* fetched over a connection of its own, at most once, and ends parsed or  *)
(* failed in the very step that gives the connection back.  There are no   *)
(* events, handlers, lists or timers here.                                 *)
(***************************************************************************)
CONSTANTS Url, Slot, NULL

VARIABLES
    life,       \* [Url -> where the URL is]
    owner       \* [Slot -> the URL fetched over it, or NULL]

Ended == {"parsed", "failed"}

Init ==
    /\ life = [u \in Url |-> "queued"]
    /\ owner = [c \in Slot |-> NULL]

\* The name of its host is being resolved
Resolve(u) ==
    /\ life[u] = "queued"
    /\ life' = [life EXCEPT ![u] = "resolving"]
    /\ UNCHANGED owner

\* A free connection is taken for it
Open(u, c) ==
    /\ life[u] \in {"queued", "resolving"} /\ owner[c] = NULL
    /\ life' = [life EXCEPT ![u] = "live"]
    /\ owner' = [owner EXCEPT ![c] = u]

\* It is given up before it has a connection
GiveUp(u) ==
    /\ life[u] \in {"queued", "resolving"}
    /\ life' = [life EXCEPT ![u] = "failed"]
    /\ UNCHANGED owner

\* The fetch ends and its connection is free again
Close(u, c) ==
    /\ life[u] = "live" /\ owner[c] = u
    /\ \E e \in Ended : life' = [life EXCEPT ![u] = e]
    /\ owner' = [owner EXCEPT ![c] = NULL]

Next == \E u \in Url : \/ Resolve(u) \/ GiveUp(u)
                       \/ \E c \in Slot : Open(u, c) \/ Close(u, c)

Spec == Init /\ [][Next]_<<life, owner>>
=============================================================================
