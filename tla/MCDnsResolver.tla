----------------------------- MODULE MCDnsResolver -----------------------------
(* The instance of DnsResolver for TLC.                                      *)
EXTENDS DnsResolver

\* Two urls of one host, of which the second may hit the cache or be asked while the first still is,
\* and one of another, so that an address from the wrong host shows
SharedHost == [u \in Url |-> IF u = 3 THEN "hB" ELSE "hA"]
=============================================================================
