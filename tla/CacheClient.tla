---------------------------- MODULE CacheClient ----------------------------
(***************************************************************************)
(* The record cache under every use of its methods, as the requests that   *)
(* share it make them in any order: one method call at a time, since each  *)
(* holds Cache.mu, with time passing in between.                           *)
(***************************************************************************)
EXTENDS Cache

CONSTANTS Names,            \* the names used as keys
          Types,            \* the types used as keys
          RRsets,           \* the sets of records stored
          NegativeTTLs,     \* the lifetimes given to negative entries
          MaxNow            \* bound: the clock stops here

ASSUME RRsetsAssumption == \A rrs \in RRsets : IsSection(rrs)
ASSUME NegativeTTLsAssumption == NegativeTTLs \subseteq Nat
ASSUME MaxNowAssumption == MaxNow \in Nat

VARIABLE reply      \* what the last call of Get or GetNegative returned

vars == <<entries, nxdomain, nodata, now, reply>>

NoReply == [op |-> "none"]

Init == NewCache /\ now = 0 /\ reply = NoReply

CallGet(n, t) ==
    /\ Get(n, t)
    /\ reply' = IF Hit(n, t)
                THEN [op |-> "Get", key |-> <<n, t>>, ok |-> TRUE, rrs |-> Cached(n, t)]
                ELSE [op |-> "Get", key |-> <<n, t>>, ok |-> FALSE]
    /\ UNCHANGED now

CallGetNegative(n, t) ==
    /\ GetNegative(n, t)
    /\ reply' = IF NegativeHit(n, t)
                THEN [op |-> "GetNegative", key |-> <<n, t>>, ok |-> TRUE,
                      rcode |-> NegativeRcode(n)]
                ELSE [op |-> "GetNegative", key |-> <<n, t>>, ok |-> FALSE]
    /\ UNCHANGED now

CallSet(n, t, rrs) == Set(n, t, rrs) /\ reply' = NoReply /\ UNCHANGED now

CallSetNXDomain(n, ttl) == SetNXDomain(n, ttl) /\ reply' = NoReply /\ UNCHANGED now

CallSetNoData(n, t, ttl) == SetNoData(n, t, ttl) /\ reply' = NoReply /\ UNCHANGED now

Tick == /\ now < MaxNow
        /\ now' = now + 1
        /\ reply' = NoReply
        /\ UNCHANGED cacheVars

Next == \/ Tick
        \/ \E n \in Names, t \in Types :
                \/ CallGet(n, t)
                \/ CallGetNegative(n, t)
                \/ \E rrs \in RRsets : CallSet(n, t, rrs)
                \/ \E ttl \in NegativeTTLs : CallSetNXDomain(n, ttl) \/ CallSetNoData(n, t, ttl)

Spec == Init /\ [][Next]_vars
-----------------------------------------------------------------------------
TypeOK == /\ now \in Nat
          /\ DOMAIN entries \subseteq Names \X Types
          /\ \A k \in DOMAIN entries :
                /\ entries[k] = [rrs |-> entries[k].rrs, expires |-> entries[k].expires]
                /\ entries[k].expires \in Nat
          /\ DOMAIN nxdomain \subseteq Names
          /\ \A n \in DOMAIN nxdomain : nxdomain[n] \in Nat
          /\ DOMAIN nodata \subseteq Names \X Types
          /\ \A k \in DOMAIN nodata : nodata[k] \in Nat

(* What of the stored entries is still alive, and for how long.            *)
Held == [k \in {x \in DOMAIN entries : ~Expired(entries[x].expires)} |->
            [rrs |-> entries[k].rrs, left |-> entries[k].expires - now]]
Absent == [n \in {x \in DOMAIN nxdomain : ~Expired(nxdomain[x])} |-> nxdomain[n] - now]
Empty == [k \in {x \in DOMAIN nodata : ~Expired(nodata[x])} |-> nodata[k] - now]

Eager == INSTANCE EagerCache
            WITH held <- Held, absent <- Absent, empty <- Empty, Lifetime <- MinTTL

(* Deleting on read, overwriting and absolute expiry times cannot be told  *)
(* apart from entries that live exactly as long as their shortest-lived    *)
(* record: no read returns a record past its time, loses one before it, or *)
(* confuses one key, type or kind of entry with another.                   *)
KeepsItsPromise == Eager!Spec
=============================================================================
