------------------------------ MODULE MCLookup ------------------------------
(* Two calls on one cache, asking for a name below com, the host that      *)
(* serves it, or both, some with a server to fail over to.  Servers answer *)
(* anything: an address too many, a delegation with glue that outlives it, *)
(* one to the zone above, NODATA with a SOA of the zone above and one of   *)
(* its own, NXDOMAIN for an alias, with a SOA of its own or only one of    *)
(* the zone above, and nothing, truncated.                                 *)
EXTENDS Lookup

com == <<"com">>
ex == <<"com", "ex">>
EX == <<"com", "EX">>
ns == <<"com", "ex", "ns">>

MCLabel == {"com", "ex", "EX", "ns"}
MCLower == [l \in MCLabel |-> IF l = "EX" THEN "ex" ELSE l]

Rec(o, t, x, ttl) == [owner |-> o, type |-> t, target |-> x, ttl |-> ttl, min |-> 0]
Addr(o, ttl) == Rec(o, "A", o, ttl)
SOA(o, ttl, min) == [Rec(o, "SOA", o, ttl) EXCEPT !.min = min]

Response(rcode, answer, authority, extra) ==
    [rcode |-> rcode, answer |-> answer, ns |-> authority, extra |-> extra, tc |-> FALSE]

(* "deliberately set TC and return nothing over UDP" (README.md:167-170).  *)
Truncated == [Response("NOERROR", << >>, << >>, << >>) EXCEPT !.tc = TRUE]

MCResponses ==
    {Response("NOERROR", <<Addr(EX, 1), Addr(com, 0), Addr(ns, 1)>>, << >>, << >>),
     Response("NOERROR", << >>, <<Rec(ex, "NS", ns, 0)>>,
                                <<Addr(ns, 2), Addr(com, 1), Addr(ns, 1)>>),
     Response("NOERROR", << >>, <<Rec(com, "NS", ns, 1)>>, <<Addr(ns, 1)>>),
     Response("NOERROR", << >>, <<SOA(com, 2, 1), SOA(ex, 0, 1)>>, << >>),
     Response("NXDOMAIN", <<Rec(ex, "CNAME", ns, 1)>>, <<SOA(com, 0, 2)>>, << >>),
     Truncated}

Asks(n, t, zone, servers) == [name |-> n, type |-> t, zone |-> zone, servers |-> servers]

MCQuestions == {Asks(ex, "A", ex, 2), Asks(ns, "A", com, 1), Asks(ex, "NS", com, 1),
                Asks(com, "A", ex, 1)}
=============================================================================
