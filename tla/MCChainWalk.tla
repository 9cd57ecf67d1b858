---------------------------- MODULE MCChainWalk ----------------------------
(* A zone with three names below it, one of them also in another spelling, *)
(* a name outside it, and every answer section of up to three records.     *)
EXTENDS ChainWalk

com == <<"com">>
a == <<"com", "a">>
A == <<"com", "A">>
b == <<"com", "b">>
c == <<"com", "c">>
net == <<"net">>

MCLabel == {"com", "net", "a", "A", "b", "c"}
MCLower == [l \in MCLabel |-> IF l = "A" THEN "a" ELSE l]

Rec(o, t, x) == [owner |-> o, type |-> t, target |-> x, ttl |-> 1, min |-> 0]

MCRecords == {Rec(o, "CNAME", x) : o \in {a, b, c, net}, x \in {A, b, c, net}}
                \cup {Rec(o, "A", o) : o \in {A, b, c, net}}
MCAnswers == UNION {[1..n -> MCRecords] : n \in 0..3}
MCInputs == [zone : {com, a}, name : {a}, answer : MCAnswers]
=============================================================================
