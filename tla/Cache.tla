------------------------------- MODULE Cache -------------------------------
(***************************************************************************)
(* The record cache every request shares (resolver/cache.go).  An entry    *)
(* carries the time it expires; expired entries stay until a read of their *)
(* key finds and deletes them.  Keys are compared as they are spelled.     *)
(*                                                                         *)
(* Each operator below is one method, that is one critical section of      *)
(* Cache.mu; the modules that use the cache take them as conjuncts of      *)
(* their actions.  The clock is part of the state: the methods read it, in *)
(* seconds.  The class is always dns.ClassINET and is left out of the keys.*)
(***************************************************************************)
EXTENDS Records

VARIABLES entries,      \* <<name, type>> -> [rrs, expires]
          nxdomain,     \* name -> time of expiry
          nodata,       \* <<name, type>> -> time of expiry
          now           \* time.Now()

cacheVars == <<entries, nxdomain, nodata>>

Put(f, k, v) == [x \in DOMAIN f \cup {k} |-> IF x = k THEN v ELSE f[x]]
Drop(f, k) == [x \in DOMAIN f \ {k} |-> f[x]]

Expired(time) == now > time

NewCache == /\ entries = << >>
            /\ nxdomain = << >>
            /\ nodata = << >>

(* Mutant: an expired entry still answers.                                 *)
HitStale(n, t) == <<n, t>> \in DOMAIN entries

(* Get(n, t) hits when the key has an entry that has not expired.          *)
Hit(n, t) == /\ <<n, t>> \in DOMAIN entries
             /\ ~Expired(entries[<<n, t>>].expires)

Cached(n, t) == entries[<<n, t>>].rrs

Get(n, t) ==
    /\ entries' = IF <<n, t>> \in DOMAIN entries /\ ~Hit(n, t)
                  THEN Drop(entries, <<n, t>>)
                  ELSE entries
    /\ UNCHANGED <<nxdomain, nodata>>

MinTTL(rrs) == CHOOSE ttl \in {rrs[i].ttl : i \in DOMAIN rrs} :
                    \A i \in DOMAIN rrs : ttl <= rrs[i].ttl

(* Set(n, t, rrs) replaces the entry; no records, no effect.               *)
Set(n, t, rrs) ==
    /\ entries' = IF DOMAIN rrs = {}
                  THEN entries
                  ELSE Put(entries, <<n, t>>, [rrs |-> rrs, expires |-> now + MinTTL(rrs)])
    /\ UNCHANGED <<nxdomain, nodata>>

(* GetNegative(n, t) looks for NXDOMAIN at the name first, at any type,    *)
(* and only when there is none for NODATA at the type.                     *)
NameAbsent(n) == /\ n \in DOMAIN nxdomain
                 /\ ~Expired(nxdomain[n])

TypeAbsent(n, t) == /\ <<n, t>> \in DOMAIN nodata
                    /\ ~Expired(nodata[<<n, t>>])

NegativeHit(n, t) == NameAbsent(n) \/ TypeAbsent(n, t)

NegativeRcode(n) == IF NameAbsent(n) THEN "NXDOMAIN" ELSE "NOERROR"

GetNegative(n, t) ==
    /\ nxdomain' = IF n \in DOMAIN nxdomain /\ ~NameAbsent(n)
                   THEN Drop(nxdomain, n)
                   ELSE nxdomain
    /\ nodata' = IF ~NameAbsent(n) /\ <<n, t>> \in DOMAIN nodata /\ ~TypeAbsent(n, t)
                 THEN Drop(nodata, <<n, t>>)
                 ELSE nodata
    /\ UNCHANGED entries

SetNXDomain(n, ttl) ==
    /\ nxdomain' = Put(nxdomain, n, now + ttl)
    /\ UNCHANGED <<entries, nodata>>

SetNoData(n, t, ttl) ==
    /\ nodata' = Put(nodata, <<n, t>>, now + ttl)
    /\ UNCHANGED <<entries, nxdomain>>
=============================================================================
