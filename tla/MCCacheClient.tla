--------------------------- MODULE MCCacheClient ---------------------------
(* One name, two types, records that outlive each other.                   *)
EXTENDS CacheClient

Rec(ttl) == [owner |-> <<"a">>, type |-> "A", target |-> <<"a">>, ttl |-> ttl, min |-> 0]

MCLower == [l \in {"a"} |-> l]
MCRRsets == {<<Rec(1)>>, <<Rec(2), Rec(0)>>, << >>}
=============================================================================
