----------------------------- MODULE EagerCache -----------------------------
(***************************************************************************)
(* What the record cache promises, without expiry times or deletions on    *)
(* read: it holds what was last stored under each key for as many seconds  *)
(* as the shortest-lived record stored had to live, then no longer; a read *)
(* changes nothing and sees all of it; storing no records keeps what was   *)
(* there; and a name recorded as not existing answers for every type,      *)
(* ahead of what is recorded of a single type.                             *)
(***************************************************************************)
EXTENDS Naturals

CONSTANTS Names, Types, RRsets, NegativeTTLs,
          Lifetime(_)       \* seconds that a set of records may be kept

VARIABLES held,     \* <<name, type>> -> [rrs, left]: seconds left to live
          absent,   \* name -> seconds left
          empty,    \* <<name, type>> -> seconds left
          reply     \* what the last read returned

vars == <<held, absent, empty, reply>>

NoReply == [op |-> "none"]

Store(f, k, v) == [x \in DOMAIN f \cup {k} |-> IF x = k THEN v ELSE f[x]]

Init == /\ held = << >>
        /\ absent = << >>
        /\ empty = << >>
        /\ reply = NoReply

Read(n, t) ==
    /\ reply' = IF <<n, t>> \in DOMAIN held
                THEN [op |-> "Get", key |-> <<n, t>>, ok |-> TRUE, rrs |-> held[<<n, t>>].rrs]
                ELSE [op |-> "Get", key |-> <<n, t>>, ok |-> FALSE]
    /\ UNCHANGED <<held, absent, empty>>

ReadNegative(n, t) ==
    /\ reply' = IF n \in DOMAIN absent
                THEN [op |-> "GetNegative", key |-> <<n, t>>, ok |-> TRUE, rcode |-> "NXDOMAIN"]
                ELSE IF <<n, t>> \in DOMAIN empty
                THEN [op |-> "GetNegative", key |-> <<n, t>>, ok |-> TRUE, rcode |-> "NOERROR"]
                ELSE [op |-> "GetNegative", key |-> <<n, t>>, ok |-> FALSE]
    /\ UNCHANGED <<held, absent, empty>>

Hold(n, t, rrs) ==
    /\ held' = IF DOMAIN rrs = {}
               THEN held
               ELSE Store(held, <<n, t>>, [rrs |-> rrs, left |-> Lifetime(rrs)])
    /\ reply' = NoReply
    /\ UNCHANGED <<absent, empty>>

HoldAbsent(n, ttl) ==
    /\ absent' = Store(absent, n, ttl)
    /\ reply' = NoReply
    /\ UNCHANGED <<held, empty>>

HoldEmpty(n, t, ttl) ==
    /\ empty' = Store(empty, <<n, t>>, ttl)
    /\ reply' = NoReply
    /\ UNCHANGED <<held, absent>>

(* A second passes: what had none left is gone.                            *)
Second ==
    /\ held' = [k \in {x \in DOMAIN held : held[x].left > 0} |->
                    [rrs |-> held[k].rrs, left |-> held[k].left - 1]]
    /\ absent' = [n \in {x \in DOMAIN absent : absent[x] > 0} |-> absent[n] - 1]
    /\ empty' = [k \in {x \in DOMAIN empty : empty[x] > 0} |-> empty[k] - 1]
    /\ reply' = NoReply

Next == \/ Second
        \/ \E n \in Names, t \in Types :
                \/ Read(n, t)
                \/ ReadNegative(n, t)
                \/ \E rrs \in RRsets : Hold(n, t, rrs)
                \/ \E ttl \in NegativeTTLs : HoldAbsent(n, ttl) \/ HoldEmpty(n, t, ttl)

Spec == Init /\ [][Next]_vars
=============================================================================
