---------------------------- MODULE MCRecursive ----------------------------
(* A zone com with the zone com.ex in it, served by the hosts com.ns and   *)
(* com.ex.ns, and servers that give any of the responses below to any      *)
(* question: referrals with glue, without, to hosts that need each other,  *)
(* back up and across; answers, CNAMEs between the two names in both       *)
(* directions, complete or cut; NODATA and NXDOMAIN.                       *)
EXTENDS Recursive

com == <<"com">>
ex == <<"com", "ex">>
EX == <<"com", "EX">>
ns == <<"com", "ns">>
exns == <<"com", "ex", "ns">>

MCLabel == {"com", "ex", "EX", "ns"}
MCLower == [l \in MCLabel |-> IF l = "EX" THEN "ex" ELSE l]

Rec(o, t, x) == [owner |-> o, type |-> t, target |-> x, ttl |-> 1, min |-> 0]
Addr(o) == Rec(o, "A", o)
CName(o, x) == Rec(o, "CNAME", x)
Serves(z, h) == Rec(z, "NS", h)
Start(z) == Rec(z, "SOA", z)

Answers(s) == [rcode |-> "NOERROR", answer |-> s, ns |-> << >>, extra |-> << >>]
Refers(s, glue) == [rcode |-> "NOERROR", answer |-> << >>, ns |-> s, extra |-> glue]

MCResponses ==
    {Refers(<<Serves(com, ns)>>, <<Addr(ns)>>),
     Refers(<<Serves(com, exns), Serves(ex, ns), Serves(com, ns)>>, <<Addr(ex)>>),
     Refers(<<Serves(ex, exns), Start(exns), Serves(EX, ns)>>, << >>),
     Refers(<<Serves(EX, exns)>>, <<Addr(exns)>>),
     Refers(<<Start(com)>>, << >>),
     Answers(<<Addr(ex), Addr(ns)>>),
     Answers(<<CName(ex, ns)>>),
     Answers(<<CName(ns, ex), CName(ex, exns), Addr(ns), Addr(exns)>>),
     [Refers(<<Start(ex)>>, << >>) EXCEPT !.rcode = "NXDOMAIN", !.answer = <<CName(ex, exns)>>]}

MCRootHints == {<<"ns">>}
MCQueries == {[name |-> ex, type |-> "A"], [name |-> ex, type |-> "NS"]}
=============================================================================
