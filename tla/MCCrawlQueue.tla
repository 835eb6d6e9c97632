----------------------------- MODULE MCCrawlQueue -----------------------------
(* The instance of CrawlQueue for TLC: two workers and a small site with cycles. *)
EXTENDS CrawlQueue

\* A forum page that is a seed twice, and a page of the other worker's list that links back and to itself
MCSeed == <<"f", "f">>
MCLinks == [u \in Url |-> IF u = "f" THEN <<"g">> ELSE <<"f", "g">>]
\* Two hash seeds; the pages share a bit
MCOffsets == [u \in Url |-> IF u = "f" THEN <<1, 2>> ELSE <<2, 3>>]
MCListOf == [u \in Url |-> IF u = "f" THEN 0 ELSE 1]
=============================================================================
