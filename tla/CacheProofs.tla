---------------------------- MODULE CacheProofs ----------------------------
(***************************************************************************)
(* The cache with expiry times and deletion on read implements EagerCache, *)
(* for all names, types, record sets and lifetimes.                        *)
(***************************************************************************)
EXTENDS CacheClient, RecordFacts

(* The smallest TTL of a nonempty section is a natural number.             *)
LEMMA MinTTLType ==
    ASSUME NEW rrs, IsSection(rrs), DOMAIN rrs # {}
    PROVE  MinTTL(rrs) \in Nat
<1> DEFINE ttls == {rrs[i].ttl : i \in DOMAIN rrs}
           least(ttl) == ttl \in Nat /\ \A i \in DOMAIN rrs : ttl <= rrs[i].ttl
<1>1. PICK ttl \in ttls : least(ttl)
  BY LeastTTL
<1>2. ttls \subseteq Nat
  BY MaxTTLAssumption DEF IsSection, RR, TTL
<1>3. MinTTL(rrs) \in ttls
  BY <1>1 DEF MinTTL
<1> QED BY <1>2, <1>3

-----------------------------------------------------------------------------
(* The state stays typed: an expiry time is always a time.                 *)
LEMMA InitTypeOK == Init => TypeOK
BY DEF Init, NewCache, TypeOK

LEMMA NextTypeOK == TypeOK /\ [Next]_vars => TypeOK'
<1> SUFFICES ASSUME TypeOK, [Next]_vars PROVE TypeOK'
  OBVIOUS
<1> USE DEF TypeOK
<1>1. CASE UNCHANGED vars
  BY <1>1 DEF vars
<1>2. CASE Tick
  BY <1>2 DEF Tick, cacheVars
<1>3. ASSUME NEW n \in Names, NEW t \in Types, CallGet(n, t)
      PROVE  TypeOK'
  BY <1>3 DEF CallGet, Get, Drop
<1>4. ASSUME NEW n \in Names, NEW t \in Types, CallGetNegative(n, t)
      PROVE  TypeOK'
  BY <1>4 DEF CallGetNegative, GetNegative, Drop
<1>5. ASSUME NEW n \in Names, NEW t \in Types, NEW rrs \in RRsets, CallSet(n, t, rrs)
      PROVE  TypeOK'
  <2>1. CASE DOMAIN rrs = {}
    BY <1>5, <2>1 DEF CallSet, Set
  <2>2. CASE DOMAIN rrs # {}
    <3>1. now + MinTTL(rrs) \in Nat
      BY <2>2, MinTTLType, RRsetsAssumption
    <3> QED BY <1>5, <2>2, <3>1 DEF CallSet, Set, Put
  <2> QED BY <2>1, <2>2
<1>6. ASSUME NEW n \in Names, NEW t \in Types, NEW ttl \in NegativeTTLs,
             CallSetNXDomain(n, ttl) \/ CallSetNoData(n, t, ttl)
      PROVE  TypeOK'
  BY <1>6, NegativeTTLsAssumption
     DEF CallSetNXDomain, SetNXDomain, CallSetNoData, SetNoData, Put
<1> QED BY <1>1, <1>2, <1>3, <1>4, <1>5, <1>6 DEF Next

(* The cache keeps its types, whatever is stored and read.                 *)
THEOREM CacheTypeOK == Spec => []TypeOK
BY InitTypeOK, NextTypeOK, PTL DEF Spec

-----------------------------------------------------------------------------
LEMMA InitRefines == Init => Eager!Init
BY DEF Init, NewCache, Eager!Init, Held, Absent, Empty, NoReply, Eager!NoReply

(* Deleting an expired entry is no step of the promise: it was gone.       *)
LEMMA GetRefines ==
    ASSUME TypeOK, NEW n \in Names, NEW t \in Types, CallGet(n, t)
    PROVE  Eager!Read(n, t)
<1>1. /\ nxdomain' = nxdomain /\ nodata' = nodata /\ now' = now
      /\ entries' = IF <<n, t>> \in DOMAIN entries /\ ~Hit(n, t)
                    THEN Drop(entries, <<n, t>>)
                    ELSE entries
  BY DEF CallGet, Get
<1>2. UNCHANGED <<Absent, Empty>>
  BY <1>1 DEF Absent, Empty, Expired
<1>3. Held' = Held
  BY <1>1 DEF Held, Expired, Drop, Hit
<1>4. <<n, t>> \in DOMAIN Held <=> Hit(n, t)
  BY DEF Held, Hit
<1>5. Hit(n, t) => Held[<<n, t>>].rrs = Cached(n, t)
  BY DEF Held, Hit, Cached
<1> QED BY <1>2, <1>3, <1>4, <1>5 DEF CallGet, Eager!Read

LEMMA GetNegativeRefines ==
    ASSUME TypeOK, NEW n \in Names, NEW t \in Types, CallGetNegative(n, t)
    PROVE  Eager!ReadNegative(n, t)
<1>1. /\ entries' = entries /\ now' = now
      /\ nxdomain' = IF n \in DOMAIN nxdomain /\ ~NameAbsent(n)
                     THEN Drop(nxdomain, n)
                     ELSE nxdomain
      /\ nodata' = IF ~NameAbsent(n) /\ <<n, t>> \in DOMAIN nodata /\ ~TypeAbsent(n, t)
                   THEN Drop(nodata, <<n, t>>)
                   ELSE nodata
  BY DEF CallGetNegative, GetNegative
<1>2. Held' = Held
  BY <1>1 DEF Held, Expired
<1>3. Absent' = Absent
  BY <1>1 DEF Absent, Expired, Drop, NameAbsent
<1>4. Empty' = Empty
  BY <1>1 DEF Empty, Expired, Drop, TypeAbsent
<1>5. /\ n \in DOMAIN Absent <=> NameAbsent(n)
      /\ <<n, t>> \in DOMAIN Empty <=> TypeAbsent(n, t)
  BY DEF Absent, Empty, NameAbsent, TypeAbsent
<1> QED BY <1>2, <1>3, <1>4, <1>5
        DEF CallGetNegative, NegativeHit, NegativeRcode, Eager!ReadNegative

LEMMA SetRefines ==
    ASSUME TypeOK, NEW n \in Names, NEW t \in Types, NEW rrs \in RRsets, CallSet(n, t, rrs)
    PROVE  Eager!Hold(n, t, rrs)
<1>1. nxdomain' = nxdomain /\ nodata' = nodata /\ now' = now /\ reply' = NoReply
  BY DEF CallSet, Set
<1>2. UNCHANGED <<Absent, Empty>>
  BY <1>1 DEF Absent, Empty, Expired
<1>3. CASE DOMAIN rrs = {}
  BY <1>1, <1>2, <1>3 DEF CallSet, Set, Held, Expired, Eager!Hold, NoReply, Eager!NoReply
<1>4. CASE DOMAIN rrs # {}
  <2>1. MinTTL(rrs) \in Nat /\ now \in Nat
    BY <1>4, MinTTLType, RRsetsAssumption DEF TypeOK
  <2> DEFINE m == MinTTL(rrs)
  <2>2. entries' = Put(entries, <<n, t>>, [rrs |-> rrs, expires |-> now + m])
    BY <1>4 DEF CallSet, Set
  <2> HIDE DEF m
  <2>3. m \in Nat
    BY <2>1 DEF m
  <2>4. Held' = Eager!Store(Held, <<n, t>>, [rrs |-> rrs, left |-> m])
    <3>1. DOMAIN Held' = DOMAIN Held \cup {<<n, t>>}
      BY <1>1, <2>1, <2>2, <2>3 DEF Held, Put, Expired
    <3>2. Held'[<<n, t>>] = [rrs |-> rrs, left |-> m]
      BY <1>1, <2>1, <2>2, <2>3, <3>1 DEF Held, Put, Expired
    <3>3. \A k \in DOMAIN Held \ {<<n, t>>} : Held'[k] = Held[k]
      BY <1>1, <2>1, <2>2, <2>3, <3>1 DEF Held, Put, Expired
    <3> QED BY <3>1, <3>2, <3>3 DEF Held, Eager!Store
  <2> QED BY <1>1, <1>2, <1>4, <2>4 DEF m, Eager!Hold, NoReply, Eager!NoReply
<1> QED BY <1>3, <1>4

LEMMA SetNXDomainRefines ==
    ASSUME TypeOK, NEW n \in Names, NEW ttl \in NegativeTTLs, CallSetNXDomain(n, ttl)
    PROVE  Eager!HoldAbsent(n, ttl)
<1>1. /\ entries' = entries /\ nodata' = nodata /\ now' = now /\ reply' = NoReply
      /\ nxdomain' = Put(nxdomain, n, now + ttl)
  BY DEF CallSetNXDomain, SetNXDomain
<1>2. ttl \in Nat /\ now \in Nat
  BY NegativeTTLsAssumption DEF TypeOK
<1>3. UNCHANGED <<Held, Empty>>
  BY <1>1 DEF Held, Empty, Expired
<1>4. Absent' = Eager!Store(Absent, n, ttl)
  <2>1. DOMAIN Absent' = DOMAIN Absent \cup {n}
    BY <1>1, <1>2 DEF Absent, Put, Expired
  <2>2. Absent'[n] = ttl /\ \A x \in DOMAIN Absent \ {n} : Absent'[x] = Absent[x]
    BY <1>1, <1>2, <2>1 DEF Absent, Put, Expired
  <2> QED BY <2>1, <2>2 DEF Absent, Eager!Store
<1> QED BY <1>1, <1>3, <1>4 DEF Eager!HoldAbsent, NoReply, Eager!NoReply

LEMMA SetNoDataRefines ==
    ASSUME TypeOK, NEW n \in Names, NEW t \in Types, NEW ttl \in NegativeTTLs,
           CallSetNoData(n, t, ttl)
    PROVE  Eager!HoldEmpty(n, t, ttl)
<1>1. /\ entries' = entries /\ nxdomain' = nxdomain /\ now' = now /\ reply' = NoReply
      /\ nodata' = Put(nodata, <<n, t>>, now + ttl)
  BY DEF CallSetNoData, SetNoData
<1>2. ttl \in Nat /\ now \in Nat
  BY NegativeTTLsAssumption DEF TypeOK
<1>3. UNCHANGED <<Held, Absent>>
  BY <1>1 DEF Held, Absent, Expired
<1>4. Empty' = Eager!Store(Empty, <<n, t>>, ttl)
  <2>1. DOMAIN Empty' = DOMAIN Empty \cup {<<n, t>>}
    BY <1>1, <1>2 DEF Empty, Put, Expired
  <2>2. Empty'[<<n, t>>] = ttl /\ \A k \in DOMAIN Empty \ {<<n, t>>} : Empty'[k] = Empty[k]
    BY <1>1, <1>2, <2>1 DEF Empty, Put, Expired
  <2> QED BY <2>1, <2>2 DEF Empty, Eager!Store
<1> QED BY <1>1, <1>3, <1>4 DEF Eager!HoldEmpty, NoReply, Eager!NoReply

(* A tick takes a second from every live entry and ends those that had     *)
(* none left.                                                              *)
LEMMA TickRefines ==
    ASSUME TypeOK, Tick
    PROVE  Eager!Second
<1>1. /\ entries' = entries /\ nxdomain' = nxdomain /\ nodata' = nodata
      /\ now' = now + 1 /\ reply' = NoReply /\ now \in Nat
  BY DEF Tick, cacheVars, TypeOK
<1>2. Held' = [k \in {x \in DOMAIN Held : Held[x].left > 0} |->
                    [rrs |-> Held[k].rrs, left |-> Held[k].left - 1]]
  BY <1>1 DEF TypeOK, Held, Expired
<1>3. Absent' = [n \in {x \in DOMAIN Absent : Absent[x] > 0} |-> Absent[n] - 1]
  BY <1>1 DEF TypeOK, Absent, Expired
<1>4. Empty' = [k \in {x \in DOMAIN Empty : Empty[x] > 0} |-> Empty[k] - 1]
  BY <1>1 DEF TypeOK, Empty, Expired
<1> QED BY <1>1, <1>2, <1>3, <1>4 DEF Eager!Second, NoReply, Eager!NoReply

LEMMA NextRefines ==
    TypeOK /\ [Next]_vars => [Eager!Next]_(Eager!vars)
<1> SUFFICES ASSUME TypeOK, [Next]_vars PROVE [Eager!Next]_(Eager!vars)
  OBVIOUS
<1>1. CASE UNCHANGED vars
  BY <1>1 DEF vars, Eager!vars, Held, Absent, Empty, Expired
<1>2. CASE Tick
  BY <1>2, TickRefines DEF Eager!Next
<1>3. ASSUME NEW n \in Names, NEW t \in Types,
             \/ CallGet(n, t)
             \/ CallGetNegative(n, t)
             \/ \E rrs \in RRsets : CallSet(n, t, rrs)
             \/ \E ttl \in NegativeTTLs : CallSetNXDomain(n, ttl) \/ CallSetNoData(n, t, ttl)
      PROVE  Eager!Next
  BY <1>3, GetRefines, GetNegativeRefines, SetRefines, SetNXDomainRefines, SetNoDataRefines
     DEF Eager!Next
<1> QED BY <1>1, <1>2, <1>3 DEF Next

(* Every behaviour of the cache, read through what of it is still alive,   *)
(* is one of the abstract cache, whose entries live exactly as long as     *)
(* their shortest-lived record (cache.go:50-139).                          *)
THEOREM CacheKeepsItsPromise == Spec => KeepsItsPromise
BY InitTypeOK, NextTypeOK, InitRefines, NextRefines, PTL DEF Spec, KeepsItsPromise, Eager!Spec
=============================================================================
