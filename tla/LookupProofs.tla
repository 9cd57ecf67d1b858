---------------------------- MODULE LookupProofs ----------------------------
(***************************************************************************)
(* What a call of Lookup returns and what the calls leave in the cache     *)
(* they share, for any questions, any responses and any number of calls:   *)
(* a call keeps to LookupContract, and nothing is in the cache that no     *)
(* trusted server said.                                                    *)
(*                                                                         *)
(* The first part shows, for one response, that what it makes a call write *)
(* is what LookupContract lets a later call read, for whichever question   *)
(* that call asks: the two speak of different zones and names.             *)
(***************************************************************************)
EXTENDS Lookup, RecordFacts

(* Which lookup results, and on whose word, the cache may hold: what is    *)
(* under a name is what a call may read there, and each record of it came  *)
(* in a response to a trusted server's question, with a TTL that outlasts  *)
(* the entry.                                                              *)
Vouched(x, rr, expires) == /\ rr \in Sent(x)
                           /\ IsSubDomain(x.question.zone, rr.owner)
                           /\ expires <= x.at + rr.ttl

EntryGood(k) ==
    LET e == entries[k]
    IN  /\ k \in (Name \cup {NoZone}) \X Type
        /\ IsSection(e.rrs) /\ e.expires \in Nat
        /\ k[1] \in Name => e.rrs \in CachedRecords(k[1], k[2])
        /\ \A i \in DOMAIN e.rrs : \E x \in received : Vouched(x, e.rrs[i], e.expires)

(* A negative entry dates from a response to the question it is for.       *)
Dated(x, n, rcode, expires) == /\ x.question.name = n
                               /\ x.resp.rcode = rcode
                               /\ expires <= x.at + NegativeTTL(x.question.zone, x.resp.ns)

NXDomainGood(n) == /\ n \in Name /\ nxdomain[n] \in Nat
                   /\ \E x \in received : Dated(x, n, "NXDOMAIN", nxdomain[n])

NoDataGood(k) ==
    /\ k \in Name \X Type /\ nodata[k] \in Nat
    /\ \E x \in received :
        /\ Dated(x, k[1], "NOERROR", nodata[k])
        /\ x.question.type = k[2]
        /\ ~HasNS(x.resp.ns)
        /\ AnswerPositions(x.question.zone, k[1], x.resp.answer) = {}

CacheGood == /\ \A k \in DOMAIN entries : EntryGood(k)
             /\ \A n \in DOMAIN nxdomain : NXDomainGood(n)
             /\ \A k \in DOMAIN nodata : NoDataGood(k)

(* The responses were responses to questions, received by now.             *)
ReceivedGood == \A x \in received : /\ x.question \in Questions
                                    /\ x.resp \in Responses
                                    /\ x.at \in 0..now

(* What a call has still to write comes from a response of this second.    *)
TodoGood(c) ==
    IF pc[c] = "write"
    THEN \E x \in received : /\ x.question = question[c]
                             /\ x.at = now
                             /\ todo[c] \subseteq Writes(x.question, x.resp)
    ELSE todo[c] = {}

(* What it returns is fixed before it writes.                              *)
ResultGood(c) ==
    /\ result[c].ok \in BOOLEAN /\ IsMessage(result[c].msg)
    /\ result[c].ok =>
        /\ pc[c] \in {"write", "done"}
        /\ result[c].msg \in LookupResults(question[c].zone, question[c].name, question[c].type)

CallsTyped ==
    /\ now \in 0..MaxNow
    /\ pc \in [Calls -> {"get", "getNegative", "query", "exchange", "write", "done"}]
    /\ question \in [Calls -> Questions]
    /\ \A c \in Calls : tried[c] \in 0..question[c].servers
    /\ expired \in [Calls -> BOOLEAN]
    /\ DOMAIN tried = Calls /\ DOMAIN todo = Calls /\ DOMAIN result = Calls

IInv == /\ CallsTyped
        /\ ReceivedGood
        /\ CacheGood
        /\ \A c \in Calls : TodoGood(c) /\ ResultGood(c)

-----------------------------------------------------------------------------
(* Filtering a response.                                                   *)
LEMMA PositionsInDomain ==
    ASSUME NEW s, NEW z, NEW n
    PROVE  /\ AnswerPositions(z, n, s) \in SUBSET DOMAIN s
           /\ NsPositions(z, n, s) \in SUBSET DOMAIN s
           /\ ExtraPositions(z, s) \in SUBSET DOMAIN s
BY DEF AnswerPositions, At, NsPositions, Delegations, OfType, ExtraPositions

LEMMA FilteredMessage ==
    ASSUME NEW z, NEW n, NEW r \in Responses
    PROVE  IsMessage(FilterInBailiwick(z, n, r))
BY ResponsesAssumption, KeepSection, PositionsInDomain DEF IsMessage, FilterInBailiwick

(* The names of a chain are names inside the zone, and so are the owners   *)
(* of the records the chain accepts.                                       *)
LEMMA AnswerInside ==
    ASSUME NEW z \in Name, NEW n \in Name, NEW s, IsSection(s),
           NEW i \in AnswerPositions(z, n, s)
    PROVE  IsSubDomain(z, s[i].owner) /\ IsSubDomain(z, n)
<1> DEFINE Names == ChainNames(z, n, s)
           step == NextInChain(s, Names)
<1>1. PICK m \in Orbit(n, step, Names) : i \in At(s, m)
  BY DEF AnswerPositions
<1>2. m \in Name /\ IsSubDomain(z, m)
  BY <1>1 DEF Orbit, ChainNames, OfType, IsSection, RR
<1>3. s[i].owner \in Name /\ EqualFold(m, s[i].owner)
  BY <1>1, <1>2, EqualFoldSymmetric DEF At, IsSection, RR
<1>4. IsSubDomain(z, s[i].owner)
  BY <1>2, <1>3, SubDomainFold
<1>5. n \in Names
  <2> HIDE DEF Names, step
  <2>1. n \notin Names => Orbit(n, step, Names) \subseteq {}
    <3>1. {} \in SUBSET Names
      OBVIOUS
    <3> QED BY <3>1, OrbitLeast
  <2> QED BY <1>1, <2>1
<1> QED BY <1>4, <1>5 DEF ChainNames

(* A referral delegates a name between the zone and the name asked for.    *)
LEMMA DelegatedBetween ==
    ASSUME NEW z \in Name, NEW n \in Name, NEW s, IsSection(s), Delegations(z, n, s) # {}
    PROVE  /\ First(Delegations(z, n, s)) \in Delegations(z, n, s)
           /\ \A i \in Delegations(z, n, s) : First(Delegations(z, n, s)) <= i
           /\ DelegatedZone(z, n, s) = s[First(Delegations(z, n, s))].owner
           /\ DelegatedZone(z, n, s) \in Name
           /\ IsSubDomain(z, DelegatedZone(z, n, s))
           /\ IsSubDomain(DelegatedZone(z, n, s), n)
<1>1. Delegations(z, n, s) \in SUBSET Nat
  BY DEF Delegations, OfType, IsSection
<1>2. /\ First(Delegations(z, n, s)) \in Delegations(z, n, s)
      /\ \A i \in Delegations(z, n, s) : First(Delegations(z, n, s)) <= i
  BY <1>1, FirstIsLeast
<1> QED BY <1>2 DEF DelegatedZone, Delegations, OfType, IsSection, RR

LEMMA NsInside ==
    ASSUME NEW z \in Name, NEW n \in Name, NEW s, IsSection(s), NEW i \in NsPositions(z, n, s)
    PROVE  IsSubDomain(z, s[i].owner)
BY DEF NsPositions, Delegations

LEMMA ExtraInside ==
    ASSUME NEW z \in Name, NEW n \in Name, NEW ns, IsSection(ns), NEW s, IsSection(s),
           NEW i \in ExtraPositions(DelegatedZone(z, n, ns), s)
    PROVE  /\ Delegations(z, n, ns) # {}
           /\ IsSubDomain(DelegatedZone(z, n, ns), s[i].owner)
           /\ IsSubDomain(z, s[i].owner)
<1>1. /\ Delegations(z, n, ns) # {}
      /\ IsSubDomain(DelegatedZone(z, n, ns), s[i].owner)
      /\ s[i].owner \in Name
  BY DEF ExtraPositions, DelegatedZone, IsSection, RR
<1> QED BY <1>1, DelegatedBetween, SubDomainTransitive

LEMMA NegativeTTLType ==
    ASSUME NEW z, NEW s, IsSection(s)
    PROVE  NegativeTTL(z, s) \in Nat
<1> DEFINE soas == {i \in OfType(s, "SOA") : IsSubDomain(z, s[i].owner)}
<1>1. CASE soas = {}
  BY <1>1, DefaultNegativeTTLAssumption DEF NegativeTTL
<1>2. CASE soas # {}
  <2>1. soas \in SUBSET Nat /\ soas \subseteq DOMAIN s
    BY DEF OfType, IsSection
  <2>2. First(soas) \in DOMAIN s
    <3> HIDE DEF soas
    <3> QED BY <1>2, <2>1, FirstIsLeast
  <2>3. s[First(soas)].ttl \in Nat /\ s[First(soas)].min \in Nat
    BY <2>2, MaxTTLAssumption DEF IsSection, RR, TTL
  <2> QED BY <1>2, <2>3 DEF NegativeTTL, Lesser
<1> QED BY <1>1, <1>2

-----------------------------------------------------------------------------
(* A zone that encloses a name, in whatever spelling, is told apart from   *)
(* no other by its prefix of the name: the zones a reader thinks of are    *)
(* all those a writer may have been asked for.                             *)
LEMMA ZoneIsPrefix ==
    ASSUME NEW z \in Name, NEW n \in Name, IsSubDomain(z, n)
    PROVE  /\ SubSeq(n, 1, Len(z)) \in Zones(n)
           /\ SubSeq(n, 1, Len(z)) \in Name
           /\ \A m \in Name : IsSubDomain(SubSeq(n, 1, Len(z)), m) <=> IsSubDomain(z, m)
<1> DEFINE p == SubSeq(n, 1, Len(z))
           k == Len(z)
<1>1. k \in 0..Len(n)
  BY DEF IsSubDomain, Name
<1>2. p \in Zones(n)
  BY <1>1 DEF Zones
<1>3. p \in Name /\ Len(p) = k /\ \A i \in 1..k : p[i] = n[i]
  BY <1>1 DEF Name
<1>4. \A i \in 1..k : Lower[p[i]] = Lower[z[i]]
  BY <1>3 DEF IsSubDomain
<1>5. ASSUME NEW m \in Name PROVE IsSubDomain(p, m) <=> IsSubDomain(z, m)
  BY <1>3, <1>4 DEF IsSubDomain
<1> QED BY <1>2, <1>3, <1>5

LEMMA AnswerCached ==
    ASSUME NEW z \in Name, NEW n \in Name, NEW t, NEW r \in Responses, r.rcode = "NOERROR",
           AnswerPositions(z, n, r.answer) # {}
    PROVE  Keep(r.answer, AnswerPositions(z, n, r.answer)) \in CachedRecords(n, t)
<1> DEFINE p == SubSeq(n, 1, Len(z))
           A == AnswerPositions(z, n, r.answer)
<1>1. IsSection(r.answer)
  BY ResponsesAssumption DEF IsMessage
<1>2. IsSubDomain(z, n)
  BY <1>1, AnswerInside
<1>3. p \in Zones(n) /\ \A m \in Name : IsSubDomain(p, m) <=> IsSubDomain(z, m)
  BY <1>2, ZoneIsPrefix
<1>4. {n} \cup {r.answer[i].target : i \in OfType(r.answer, "CNAME")} \subseteq Name
  BY <1>1 DEF OfType, IsSection, RR
<1>5. ChainNames(p, n, r.answer) = ChainNames(z, n, r.answer)
  <2> HIDE DEF p
  <2> QED BY <1>3, <1>4 DEF ChainNames
<1>6. AnswerPositions(p, n, r.answer) = A
  BY <1>5 DEF AnswerPositions
<1>7. Keep(r.answer, A) \in CachedAnswers(n, t)
  <2> HIDE DEF A, p
  <2> QED BY <1>3, <1>6 DEF CachedAnswers
<1>8. DOMAIN Keep(r.answer, A) # {}
  BY DEF Keep
<1> QED BY <1>7, <1>8 DEF CachedRecords

LEMMA DelegationCached ==
    ASSUME NEW z \in Name, NEW n \in Name, NEW r \in Responses,
           Delegations(z, n, r.ns) # {}
    PROVE  Keep(r.ns, NsPositions(z, n, r.ns)) \in CachedRecords(DelegatedZone(z, n, r.ns), "NS")
<1> DEFINE s == r.ns
           d == DelegatedZone(z, n, s)
           D == Delegations(z, n, s)
           p == SubSeq(d, 1, Len(z))
           E == Delegations(p, d, s)
<1>1. IsSection(s)
  BY ResponsesAssumption DEF IsMessage
<1>2. /\ First(D) \in D /\ \A i \in D : First(D) <= i
      /\ d = s[First(D)].owner /\ d \in Name /\ IsSubDomain(z, d) /\ IsSubDomain(d, n)
  BY <1>1, DelegatedBetween
<1>3. \A i \in DOMAIN s : s[i].owner \in Name /\ i \in Nat
  BY <1>1 DEF IsSection, RR
<1>4. /\ p \in Zones(d) /\ p \in Name
      /\ \A m \in Name : IsSubDomain(p, m) <=> IsSubDomain(z, m)
  BY <1>2, ZoneIsPrefix
<1> HIDE DEF p
<1>5. E = {i \in D : IsSubDomain(s[i].owner, d)}
  BY <1>2, <1>3, <1>4, SubDomainTransitive DEF Delegations, OfType
<1>6. First(D) \in E
  BY <1>2, <1>5, SubDomainReflexive
<1>7. E \in SUBSET Nat
  BY <1>3 DEF Delegations, OfType
<1>8. First(E) = First(D)
  <2> HIDE DEF D, E
  <2>1. First(E) \in E /\ \A j \in E : First(E) <= j
    BY <1>6, <1>7, FirstIsLeast
  <2>2. First(D) \in Nat /\ First(E) \in Nat /\ First(E) \in D
    BY <1>5, <1>6, <1>7, <2>1
  <2> QED BY <1>2, <1>6, <2>1, <2>2
<1>9. DelegatedZone(p, d, s) = d
  BY <1>2, <1>6, <1>8 DEF DelegatedZone
<1>10. {i \in E : EqualFold(s[i].owner, d)} = {i \in D : EqualFold(s[i].owner, d)}
  <2>1. ASSUME NEW i \in D, EqualFold(s[i].owner, d) PROVE IsSubDomain(s[i].owner, d)
    <3>1. s[i].owner \in Name
      BY <1>3 DEF Delegations, OfType
    <3> QED BY <1>2, <2>1, <3>1, SubDomainReflexive, SubDomainFold
  <2> QED BY <1>5, <2>1
<1>11. {i \in OfType(s, "SOA") : IsSubDomain(p, s[i].owner)}
            = {i \in OfType(s, "SOA") : IsSubDomain(z, s[i].owner)}
  BY <1>3, <1>4 DEF OfType
<1>12. NsPositions(p, d, s) = NsPositions(z, n, s)
  BY <1>9, <1>10, <1>11 DEF NsPositions
<1> DEFINE kept == Keep(s, NsPositions(z, n, s))
<1>13. kept \in CachedDelegations(d)
  <2>1. <<p, r>> \in {q \in Zones(d) \X Responses : DelegatedZone(q[1], d, q[2].ns) = d}
    BY <1>4, <1>9
  <2>2. kept = Keep(<<p, r>>[2].ns, NsPositions(<<p, r>>[1], d, <<p, r>>[2].ns))
    BY <1>12
  <2> QED BY <2>1, <2>2 DEF CachedDelegations
<1>14. First(D) \in DOMAIN kept
  BY <1>2, EqualFoldReflexive DEF Keep, NsPositions
<1> QED BY <1>13, <1>14 DEF CachedRecords

LEMMA GlueCached ==
    ASSUME NEW z \in Name, NEW n \in Name, NEW r \in Responses,
           NEW i \in ExtraPositions(DelegatedZone(z, n, r.ns), r.extra)
    PROVE  LET extra == Keep(r.extra, ExtraPositions(DelegatedZone(z, n, r.ns), r.extra))
               rr == r.extra[i]
           IN  /\ GroupByNameType(extra, rr.owner, rr.type) \in CachedRecords(rr.owner, rr.type)
               /\ i \in DOMAIN GroupByNameType(extra, rr.owner, rr.type)
<1> DEFINE d == DelegatedZone(z, n, r.ns)
           X == ExtraPositions(d, r.extra)
           extra == Keep(r.extra, X)
           o == r.extra[i].owner
           t == r.extra[i].type
           G == {j \in OfType(r.extra, t) : r.extra[j].owner = o}
           D == Delegations(z, n, r.ns)
<1>1. IsSection(r.ns) /\ IsSection(r.extra)
  BY ResponsesAssumption DEF IsMessage
<1>2. D # {} /\ IsSubDomain(d, o) /\ i \in DOMAIN r.extra
  BY <1>1, ExtraInside, PositionsInDomain
<1>3. d # NoZone
  BY DEF ExtraPositions
<1>4. X = {j \in DOMAIN r.extra : IsSubDomain(d, r.extra[j].owner)}
  BY <1>3 DEF ExtraPositions
<1>5. {j \in OfType(extra, t) : extra[j].owner = o} = G
  BY <1>2, <1>4 DEF OfType, Keep
<1>6. GroupByNameType(extra, o, t) = Keep(r.extra, G)
  <2>1. G \subseteq X
    BY <1>2, <1>4 DEF OfType
  <2>2. \A j \in G : extra[j] = r.extra[j]
    BY <2>1 DEF Keep
  <2> HIDE DEF G, extra
  <2> QED BY <1>5, <2>2 DEF GroupByNameType, Keep
<1>7. \E j \in OfType(r.ns, "NS") : IsSubDomain(r.ns[j].owner, o)
  <2>1. First(D) \in D /\ d = r.ns[First(D)].owner
    BY <1>1, <1>2, DelegatedBetween
  <2> HIDE DEF d
  <2> QED BY <1>2, <2>1 DEF Delegations
<1>8. Keep(r.extra, G) \in CachedGlue(o, t)
  BY <1>7 DEF CachedGlue
<1>9. i \in DOMAIN Keep(r.extra, G)
  BY <1>2 DEF Keep, OfType
<1> QED BY <1>6, <1>8, <1>9 DEF CachedRecords

-----------------------------------------------------------------------------
(* What a response to a question may have a call write.                    *)
SaidOf(q, r, s) == \A i \in DOMAIN s :
    /\ s[i] \in RecordsOf(r.answer) \cup RecordsOf(r.ns) \cup RecordsOf(r.extra)
    /\ IsSubDomain(q.zone, s[i].owner)

SetGood(q, r, w) == /\ w.key \in (Name \cup {NoZone}) \X Type
                    /\ IsSection(w.rrs) /\ DOMAIN w.rrs # {}
                    /\ w.key[1] \in Name => w.rrs \in CachedRecords(w.key[1], w.key[2])
                    /\ SaidOf(q, r, w.rrs)

NegativeGood(q, r, w) == /\ w.key = <<q.name, q.type>>
                         /\ w.ttl = NegativeTTL(q.zone, r.ns)

WriteGood(q, r, w) ==
    \/ w.kind = "set" /\ SetGood(q, r, w)
    \/ w.kind = "nxdomain" /\ NegativeGood(q, r, w) /\ r.rcode = "NXDOMAIN"
    \/ /\ w.kind = "nodata" /\ NegativeGood(q, r, w) /\ r.rcode = "NOERROR"
       /\ ~HasNS(r.ns)
       /\ AnswerPositions(q.zone, q.name, r.answer) = {}

LEMMA WritesGood ==
    ASSUME NEW q \in Questions, NEW r \in Responses, NEW w \in Writes(q, r)
    PROVE  WriteGood(q, r, w)
<1> DEFINE m == FilterInBailiwick(q.zone, q.name, r)
           A == AnswerPositions(q.zone, q.name, r.answer)
           N == NsPositions(q.zone, q.name, r.ns)
           d == DelegatedZone(q.zone, q.name, r.ns)
           X == ExtraPositions(d, r.extra)
<1>1. q.name \in Name /\ q.type \in Type /\ q.zone \in Name
  BY QuestionsAssumption
<1>2. IsSection(r.answer) /\ IsSection(r.ns) /\ IsSection(r.extra)
  BY ResponsesAssumption DEF IsMessage
<1>3. /\ m.rcode = r.rcode /\ m.answer = Keep(r.answer, A)
      /\ m.ns = Keep(r.ns, N) /\ m.extra = Keep(r.extra, X)
  BY DEF FilterInBailiwick
<1>4. A \in SUBSET DOMAIN r.answer /\ N \in SUBSET DOMAIN r.ns /\ X \in SUBSET DOMAIN r.extra
  BY PositionsInDomain
<1>5. IsSection(m.answer) /\ IsSection(m.ns) /\ IsSection(m.extra)
  BY <1>2, <1>3, <1>4, KeepSection
<1>6. /\ \A i \in A : IsSubDomain(q.zone, r.answer[i].owner)
      /\ \A i \in N : IsSubDomain(q.zone, r.ns[i].owner)
      /\ \A i \in X : IsSubDomain(q.zone, r.extra[i].owner)
  BY <1>1, <1>2, AnswerInside, NsInside, ExtraInside
<1>7. SaidOf(q, r, m.answer) /\ SaidOf(q, r, m.ns) /\ SaidOf(q, r, m.extra)
  <2> HIDE DEF A, N, X, m
  <2> QED BY <1>3, <1>4, <1>6 DEF SaidOf, Keep, RecordsOf
<1>8. \/ w \in AnswerWrites(q, m) \/ w \in DelegationWrites(q, r, m)
      \/ w \in GlueWrites(m) \/ w \in NegativeWrites(q, r, m)
  BY DEF Writes
<1>9. DOMAIN m.answer = A /\ DOMAIN m.ns = N /\ DOMAIN m.extra = X
  BY <1>3 DEF Keep
<1>10. CASE w \in AnswerWrites(q, m)
  <2>1. /\ w = Write(1, "set", <<q.name, q.type>>, m.answer, 0)
        /\ m.rcode = "NOERROR" /\ DOMAIN m.answer # {}
    BY <1>10 DEF AnswerWrites
  <2>2. m.answer \in CachedRecords(q.name, q.type)
    BY <1>1, <1>3, <1>9, <2>1, AnswerCached
  <2> HIDE DEF m
  <2>3. w.kind = "set" /\ w.key = <<q.name, q.type>> /\ w.rrs = m.answer
    BY <2>1 DEF Write
  <2> QED BY <1>1, <1>5, <1>7, <2>1, <2>2, <2>3 DEF WriteGood, SetGood
<1>11. CASE w \in DelegationWrites(q, r, m)
  <2>1. w = Write(2, "set", <<d, "NS">>, m.ns, 0) /\ DOMAIN m.ns # {}
    BY <1>11 DEF DelegationWrites
  <2>2. d \in Name \cup {NoZone}
    BY <1>1, <1>2, DelegatedBetween DEF DelegatedZone
  <2>3. d \in Name => m.ns \in CachedRecords(d, "NS")
    BY <1>1, <1>3, NoZoneAssumption, DelegationCached DEF DelegatedZone
  <2> HIDE DEF m, d
  <2>4. w.kind = "set" /\ w.key = <<d, "NS">> /\ w.rrs = m.ns
    BY <2>1 DEF Write
  <2> QED BY <1>5, <1>7, <2>1, <2>2, <2>3, <2>4 DEF WriteGood, SetGood, Type
<1>12. CASE w \in GlueWrites(m)
  <2>1. PICK rr \in RecordsOf(m.extra) :
            w = Write(3, "set", <<rr.owner, rr.type>>,
                      GroupByNameType(m.extra, rr.owner, rr.type), 0)
    BY <1>12 DEF GlueWrites
  <2>2. PICK i \in X : rr = r.extra[i]
    BY <1>3, <1>9 DEF RecordsOf, Keep
  <2> DEFINE G == GroupByNameType(m.extra, rr.owner, rr.type)
  <2>3. G \in CachedRecords(rr.owner, rr.type) /\ DOMAIN G # {}
    BY <1>1, <1>3, <2>2, GlueCached
  <2>4. rr.owner \in Name /\ rr.type \in Type
    BY <1>2, <1>4, <2>2 DEF IsSection, RR
  <2> HIDE DEF m
  <2>5. IsSection(G) /\ SaidOf(q, r, G)
    <3>1. DOMAIN G \in SUBSET DOMAIN m.extra /\ \A j \in DOMAIN G : G[j] = m.extra[j]
      BY DEF GroupByNameType, Keep, OfType
    <3> HIDE DEF G
    <3> QED BY <1>5, <1>7, <3>1, FS_Subset DEF SaidOf, IsSection
  <2>6. w.kind = "set" /\ w.key = <<rr.owner, rr.type>> /\ w.rrs = G
    BY <2>1 DEF Write
  <2> QED BY <2>3, <2>4, <2>5, <2>6 DEF WriteGood, SetGood
<1>13. CASE w \in NegativeWrites(q, r, m)
  <2>1. CASE /\ r.rcode = "NXDOMAIN"
             /\ w = Write(4, "nxdomain", <<q.name, q.type>>, NoRecords, NegativeTTL(q.zone, r.ns))
    BY <2>1 DEF Write, WriteGood, NegativeGood
  <2>2. CASE /\ r.rcode = "NOERROR" /\ DOMAIN m.answer = {} /\ ~HasNS(r.ns)
             /\ w = Write(4, "nodata", <<q.name, q.type>>, NoRecords, NegativeTTL(q.zone, r.ns))
    BY <1>9, <2>2 DEF Write, WriteGood, NegativeGood
  <2> HIDE DEF m
  <2> QED BY <1>13, <2>1, <2>2 DEF NegativeWrites
<1> QED BY <1>8, <1>10, <1>11, <1>12, <1>13

-----------------------------------------------------------------------------
(* The smallest TTL of a nonempty section is one of its TTLs.              *)
LEMMA MinTTLLeast ==
    ASSUME NEW rrs, IsSection(rrs), DOMAIN rrs # {}
    PROVE  /\ MinTTL(rrs) \in Nat
           /\ \A i \in DOMAIN rrs : MinTTL(rrs) <= rrs[i].ttl
<1> DEFINE ttls == {rrs[i].ttl : i \in DOMAIN rrs}
<1>1. ttls \subseteq Nat
  BY MaxTTLAssumption DEF IsSection, RR, TTL
<1>2. \E ttl \in ttls : \A i \in DOMAIN rrs : ttl <= rrs[i].ttl
  BY LeastTTL
<1>3. MinTTL(rrs) \in ttls /\ \A i \in DOMAIN rrs : MinTTL(rrs) <= rrs[i].ttl
  BY <1>2 DEF MinTTL
<1> QED BY <1>1, <1>3

-----------------------------------------------------------------------------
(* What was said of the cache stays true when entries are deleted and when *)
(* more responses are received; what was said of a call, when it rests.    *)
Fewer(f, g) == DOMAIN f \subseteq DOMAIN g /\ \A k \in DOMAIN f : f[k] = g[k]

LEMMA CacheKept ==
    ASSUME CacheGood, received \subseteq received',
           Fewer(entries', entries), Fewer(nxdomain', nxdomain), Fewer(nodata', nodata)
    PROVE  CacheGood'
<1>1. \A k \in DOMAIN entries' : EntryGood(k)'
  BY DEF CacheGood, Fewer, EntryGood, Vouched, Sent
<1>2. \A n \in DOMAIN nxdomain' : NXDomainGood(n)'
  BY DEF CacheGood, Fewer, NXDomainGood, Dated
<1>3. \A k \in DOMAIN nodata' : NoDataGood(k)'
  BY DEF CacheGood, Fewer, NoDataGood, Dated
<1> QED BY <1>1, <1>2, <1>3 DEF CacheGood

LEMMA ReadsDelete ==
    ASSUME NEW n, NEW t
    PROVE  /\ Get(n, t) \/ GetNegative(n, t) \/ UNCHANGED cacheVars =>
                /\ Fewer(entries', entries)
                /\ Fewer(nxdomain', nxdomain)
                /\ Fewer(nodata', nodata)
BY DEF Get, GetNegative, cacheVars, Fewer, Drop

Same(c) == /\ pc'[c] = pc[c]
           /\ question'[c] = question[c]
           /\ todo'[c] = todo[c]
           /\ result'[c] = result[c]

LEMMA OthersRest ==
    ASSUME NEW c, TodoGood(c), ResultGood(c), Same(c), now' = now, received \subseteq received'
    PROVE  TodoGood(c)' /\ ResultGood(c)'
BY DEF TodoGood, ResultGood, Same

LEMMA OwnStep ==
    ASSUME IInv, NEW c \in Calls, now' = now, received \subseteq received',
           CallsTyped', ReceivedGood', CacheGood', TodoGood(c)', ResultGood(c)',
           \A d \in Calls \ {c} : Same(d)
    PROVE  IInv'
<1>1. \A d \in Calls : TodoGood(d)' /\ ResultGood(d)'
  BY OthersRest DEF IInv
<1> QED BY <1>1 DEF IInv

-----------------------------------------------------------------------------
LEMMA FailureMessage == IsMessage(Failure.msg) /\ ~Failure.ok
BY NoRecordsSection DEF Failure, Found, IsMessage, Rcode

LEMMA InitIInv == Init => IInv
<1> SUFFICES ASSUME Init PROVE IInv
  OBVIOUS
<1> USE DEF Init
<1>1. \A c \in Calls : question[c].servers \in Nat
  BY QuestionsAssumption
<1>2. CallsTyped
  BY <1>1, MaxNowAssumption DEF CallsTyped
<1>3. ReceivedGood /\ CacheGood
  BY DEF ReceivedGood, CacheGood, NewCache
<1>4. \A c \in Calls : TodoGood(c) /\ ResultGood(c)
  BY FailureMessage DEF TodoGood, ResultGood, Failure
<1> QED BY <1>2, <1>3, <1>4 DEF IInv

(* A call that reads an answer from the cache returns one that             *)
(* LookupContract knows.                                                   *)
LEMMA ReadCacheIInv ==
    ASSUME IInv, NEW c \in Calls, ReadCache(c)
    PROVE  IInv'
<1> DEFINE n == question[c].name
           t == question[c].type
<1> USE DEF IInv
<1>1. n \in Name /\ t \in Type
  BY QuestionsAssumption DEF CallsTyped
<1>2. /\ Get(n, t)
      /\ UNCHANGED <<now, question, tried, expired, todo, received>>
      /\ pc[c] = "get" /\ pc' = [pc EXCEPT ![c] = IF Hit(n, t) THEN "done" ELSE "getNegative"]
      /\ result' = IF Hit(n, t)
                   THEN [result EXCEPT ![c] = Success(Found("NOERROR", Cached(n, t)))]
                   ELSE result
  BY DEF ReadCache, Goto, Return
<1>3. CallsTyped' /\ ReceivedGood' /\ \A d \in Calls \ {c} : Same(d)
  BY <1>2 DEF CallsTyped, ReceivedGood, Same
<1>4. CacheGood'
  BY <1>2, ReadsDelete, CacheKept
<1>5. TodoGood(c)'
  BY <1>2 DEF TodoGood, CallsTyped
<1>6. ResultGood(c)'
  <2>1. CASE Hit(n, t)
    <3>1. Cached(n, t) \in CachedRecords(n, t) /\ IsSection(Cached(n, t))
      BY <1>1, <2>1 DEF Hit, Cached, CacheGood, EntryGood
    <3> DEFINE m == Found("NOERROR", Cached(n, t))
    <3>2. m \in LookupResults(question[c].zone, n, t)
      BY <3>1 DEF LookupResults
    <3>3. IsMessage(m)
      BY <3>1, NoRecordsSection DEF Found, IsMessage, Rcode
    <3> HIDE DEF m
    <3>4. result'[c].ok = TRUE /\ result'[c].msg = m /\ pc'[c] = "done"
      BY <1>2, <2>1 DEF Success, CallsTyped, m
    <3> QED BY <1>2, <3>2, <3>3, <3>4 DEF ResultGood
  <2>2. CASE ~Hit(n, t)
    BY <1>2, <2>2 DEF ResultGood, CallsTyped
  <2> QED BY <2>1, <2>2
<1> QED BY <1>2, <1>3, <1>4, <1>5, <1>6, OwnStep

LEMMA ReadNegativeIInv ==
    ASSUME IInv, NEW c \in Calls, ReadNegative(c)
    PROVE  IInv'
<1> DEFINE n == question[c].name
           t == question[c].type
<1> USE DEF IInv
<1>1. n \in Name /\ t \in Type
  BY QuestionsAssumption DEF CallsTyped
<1>2. /\ GetNegative(n, t)
      /\ UNCHANGED <<now, question, tried, expired, todo, received>>
      /\ pc[c] = "getNegative"
      /\ pc' = [pc EXCEPT ![c] = IF NegativeHit(n, t) THEN "done" ELSE "query"]
      /\ result' = IF NegativeHit(n, t)
                   THEN [result EXCEPT ![c] = Success(Found(NegativeRcode(n), NoRecords))]
                   ELSE result
  BY DEF ReadNegative, Goto, Return
<1>3. CallsTyped' /\ ReceivedGood' /\ \A d \in Calls \ {c} : Same(d)
  BY <1>2 DEF CallsTyped, ReceivedGood, Same
<1>4. CacheGood'
  BY <1>2, ReadsDelete, CacheKept
<1>5. TodoGood(c)'
  BY <1>2 DEF TodoGood, CallsTyped
<1>6. ResultGood(c)'
  <2>1. CASE NegativeHit(n, t)
    <3>1. NegativeRcode(n) \in CachedNegatives
      <4>1. CASE NameAbsent(n)
        <5>1. PICK x \in received : x.resp.rcode = "NXDOMAIN" /\ x.resp \in Responses
          BY <4>1 DEF NameAbsent, CacheGood, NXDomainGood, Dated, ReceivedGood
        <5> QED BY <4>1, <5>1 DEF NegativeRcode, CachedNegatives
      <4>2. CASE ~NameAbsent(n)
        <5>1. <<n, t>> \in DOMAIN nodata
          BY <2>1, <4>2 DEF NegativeHit, TypeAbsent
        <5>2. PICK x \in received : /\ x.resp.rcode = "NOERROR" /\ x.resp \in Responses
                                    /\ ~HasNS(x.resp.ns)
          BY <5>1 DEF CacheGood, NoDataGood, Dated, ReceivedGood
        <5> QED BY <4>2, <5>2 DEF NegativeRcode, CachedNegatives
      <4> QED BY <4>1, <4>2
    <3> DEFINE m == Found(NegativeRcode(n), NoRecords)
    <3>2. m \in LookupResults(question[c].zone, n, t)
      BY <3>1 DEF LookupResults
    <3>3. IsMessage(m)
      BY NoRecordsSection DEF Found, IsMessage, Rcode, NegativeRcode
    <3> HIDE DEF m
    <3>4. result'[c].ok = TRUE /\ result'[c].msg = m /\ pc'[c] = "done"
      BY <1>2, <2>1 DEF Success, CallsTyped, m
    <3> QED BY <1>2, <3>2, <3>3, <3>4 DEF ResultGood
  <2>2. CASE ~NegativeHit(n, t)
    BY <1>2, <2>2 DEF ResultGood, CallsTyped
  <2> QED BY <2>1, <2>2
<1> QED BY <1>2, <1>3, <1>4, <1>5, <1>6, OwnStep

(* Asking, failing and waiting touch neither cache nor result.             *)
LEMMA QuietIInv ==
    ASSUME IInv, NEW c \in Calls,
           \/ GiveUp(c) \/ Ask(c) \/ ServerFails(c) \/ ServerSilent(c)
           \/ Finish(c) \/ ContextEnds(c)
    PROVE  IInv'
<1> USE DEF IInv
<1>1. UNCHANGED <<cacheVars, now, question, todo, result, received>>
  BY DEF GiveUp, Ask, ServerFails, ServerSilent, Finish, ContextEnds
<1>2. \A d \in Calls : question[d].servers \in Nat
  BY QuestionsAssumption DEF CallsTyped
<1>3. /\ pc' \in [Calls -> {"get", "getNegative", "query", "exchange", "write", "done"}]
      /\ \A d \in Calls \ {c} : pc'[d] = pc[d]
      /\ expired' \in [Calls -> BOOLEAN]
  BY DEF GiveUp, Ask, ServerFails, ServerSilent, Finish, ContextEnds, Goto, CallsTyped
<1>4. DOMAIN tried' = Calls /\ \A d \in Calls : tried'[d] \in 0..question[d].servers
  <2>1. CASE Ask(c)
    <3>1. tried[c] + 1 \in 0..question[c].servers
      BY <1>2, <2>1 DEF Ask, CallsTyped
    <3> QED BY <2>1, <3>1 DEF Ask, CallsTyped
  <2>2. CASE UNCHANGED tried
    BY <2>2 DEF CallsTyped
  <2> QED BY <2>1, <2>2 DEF GiveUp, ServerFails, ServerSilent, Finish, ContextEnds
<1>5. CallsTyped'
  BY <1>1, <1>3, <1>4 DEF CallsTyped
<1>6. ReceivedGood' /\ \A d \in Calls \ {c} : Same(d)
  BY <1>1, <1>3 DEF ReceivedGood, Same
<1>7. CacheGood'
  BY <1>1, ReadsDelete, CacheKept
<1>8. \/ pc[c] \in {"query", "exchange"} /\ pc'[c] \in {"query", "exchange", "done"}
      \/ pc[c] = "write" /\ pc'[c] = "done" /\ todo[c] = {}
      \/ pc'[c] = pc[c]
  BY DEF GiveUp, Ask, ServerFails, ServerSilent, Finish, ContextEnds, Goto, CallsTyped
<1>9. TodoGood(c)' /\ ResultGood(c)'
  BY <1>1, <1>8 DEF TodoGood, ResultGood
<1> QED BY <1>1, <1>5, <1>6, <1>7, <1>9, OwnStep

(* A response is filtered for the question of the call that waits for it,  *)
(* and is received now.                                                    *)
LEMMA ServerRespondsIInv ==
    ASSUME IInv, NEW c \in Calls, NEW r \in Responses, ServerResponds(c, r)
    PROVE  IInv'
<1> DEFINE q == question[c]
           m == FilterInBailiwick(q.zone, q.name, r)
           x == [question |-> q, resp |-> r, at |-> now]
<1> USE DEF IInv
<1>1. q \in Questions
  BY DEF CallsTyped
<1>2. /\ pc' = [pc EXCEPT ![c] = "write"]
      /\ todo' = [todo EXCEPT ![c] = Writes(q, r)]
      /\ result' = [result EXCEPT ![c] = Success(m)]
      /\ received' = received \cup {x}
      /\ UNCHANGED <<cacheVars, now, question, tried, expired>>
  BY DEF ServerResponds, Goto, Return
<1>3. CallsTyped' /\ \A d \in Calls \ {c} : Same(d)
  BY <1>2 DEF CallsTyped, Same
<1>4. ReceivedGood'
  <2>1. x.question = q /\ x.resp = r /\ x.at = now /\ now \in 0..now
    BY DEF CallsTyped
  <2> HIDE DEF x, q
  <2> QED BY <1>1, <1>2, <2>1 DEF ReceivedGood
<1>5. CacheGood'
  BY <1>2, ReadsDelete, CacheKept
<1>6. TodoGood(c)'
  <2>1. x \in received' /\ x.question = question'[c] /\ x.at = now' /\ x.resp = r
    BY <1>2
  <2>2. todo'[c] = Writes(q, r) /\ pc'[c] = "write"
    BY <1>2 DEF CallsTyped
  <2> QED BY <1>2, <2>1, <2>2 DEF TodoGood
<1>7. ResultGood(c)'
  <2>1. m \in LookupResults(q.zone, q.name, q.type) /\ IsMessage(m)
    BY FilteredMessage DEF LookupResults
  <2> HIDE DEF m
  <2>2. result'[c].ok = TRUE /\ result'[c].msg = m /\ pc'[c] = "write" /\ question' = question
    BY <1>2 DEF Success, CallsTyped
  <2> QED BY <2>1, <2>2 DEF ResultGood
<1> QED BY <1>2, <1>3, <1>4, <1>5, <1>6, <1>7, OwnStep

(* A write of the second its response came in.                             *)
LEMMA WriteCacheIInv ==
    ASSUME IInv, NEW c \in Calls, WriteCache(c)
    PROVE  IInv'
<1> USE DEF IInv
<1>1. PICK w \in todo[c] :
        /\ \/ w.kind = "set" /\ Set(w.key[1], w.key[2], w.rrs)
           \/ w.kind = "nxdomain" /\ SetNXDomain(w.key[1], w.ttl)
           \/ w.kind = "nodata" /\ SetNoData(w.key[1], w.key[2], w.ttl)
        /\ todo' = [todo EXCEPT ![c] = @ \ {w}]
        /\ pc[c] = "write" /\ pc' = [pc EXCEPT ![c] = "write"]
        /\ UNCHANGED <<now, question, tried, expired, result, received>>
  BY DEF WriteCache, Goto
<1>2. PICK x \in received : /\ x.question = question[c] /\ x.at = now
                            /\ todo[c] \subseteq Writes(x.question, x.resp)
  BY <1>1 DEF TodoGood
<1>3. x.question \in Questions /\ x.resp \in Responses
  BY DEF ReceivedGood
<1>4. WriteGood(x.question, x.resp, w)
  BY <1>2, <1>3, WritesGood
<1>5. CallsTyped' /\ ReceivedGood' /\ \A d \in Calls \ {c} : Same(d)
  BY <1>1 DEF CallsTyped, ReceivedGood, Same
<1>6. TodoGood(c)' /\ ResultGood(c)'
  <2>1. todo'[c] \subseteq todo[c] /\ pc'[c] = pc[c]
    BY <1>1 DEF CallsTyped
  <2> QED BY <1>1, <1>2, <2>1 DEF TodoGood, ResultGood
<1>7. now \in Nat
  BY MaxNowAssumption DEF CallsTyped
<1>8. CacheGood'
  <2> DEFINE n == w.key[1]
             t == w.key[2]
  <2>1. CASE w.kind = "set"
    <3>1. Set(n, t, w.rrs) /\ SetGood(x.question, x.resp, w)
      BY <1>1, <1>4, <2>1 DEF WriteGood
    <3> DEFINE k == <<n, t>>
               e == [rrs |-> w.rrs, expires |-> now + MinTTL(w.rrs)]
    <3>2. /\ k \in (Name \cup {NoZone}) \X Type /\ k[1] = n /\ k[2] = t
          /\ IsSection(w.rrs) /\ DOMAIN w.rrs # {}
          /\ n \in Name => w.rrs \in CachedRecords(n, t)
          /\ SaidOf(x.question, x.resp, w.rrs)
      BY <3>1 DEF SetGood
    <3>3. entries' = Put(entries, k, e) /\ nxdomain' = nxdomain /\ nodata' = nodata
      BY <3>1, <3>2 DEF Set
    <3>4. /\ MinTTL(w.rrs) \in Nat
          /\ \A i \in DOMAIN w.rrs : MinTTL(w.rrs) <= w.rrs[i].ttl /\ w.rrs[i].ttl \in Nat
      BY <3>2, MinTTLLeast, MaxTTLAssumption DEF IsSection, RR, TTL
    <3>5. e.rrs = w.rrs /\ e.expires = now + MinTTL(w.rrs) /\ e.expires \in Nat
      BY <1>7, <3>4
    <3> HIDE DEF e, k, n, t
    <3>6. \A i \in DOMAIN e.rrs : Vouched(x, e.rrs[i], e.expires)
      BY <1>2, <1>7, <3>2, <3>4, <3>5 DEF SaidOf, Vouched, Sent
    <3>7. entries'[k] = e
      BY <3>3 DEF Put
    <3>8. EntryGood(k)'
      BY <1>1, <3>2, <3>5, <3>6, <3>7 DEF EntryGood, Vouched, Sent
    <3>9. ASSUME NEW l \in DOMAIN entries', l # k PROVE EntryGood(l)'
      <4>1. l \in DOMAIN entries /\ entries'[l] = entries[l]
        BY <3>3, <3>9 DEF Put
      <4> QED BY <1>1, <4>1 DEF CacheGood, EntryGood, Vouched, Sent
    <3>10. \A l \in DOMAIN nxdomain' : NXDomainGood(l)'
      BY <1>1, <3>3 DEF CacheGood, NXDomainGood, Dated
    <3>11. \A l \in DOMAIN nodata' : NoDataGood(l)'
      BY <1>1, <3>3 DEF CacheGood, NoDataGood, Dated
    <3> QED BY <3>8, <3>9, <3>10, <3>11 DEF CacheGood
  <2>2. CASE w.kind = "nxdomain"
    <3> DEFINE expires == now + w.ttl
    <3>1. /\ SetNXDomain(n, w.ttl)
          /\ n = x.question.name /\ w.ttl = NegativeTTL(x.question.zone, x.resp.ns)
          /\ x.resp.rcode = "NXDOMAIN"
      BY <1>1, <1>4, <2>2 DEF WriteGood, NegativeGood
    <3>2. n \in Name /\ w.ttl \in Nat
      BY <1>3, <3>1, QuestionsAssumption, ResponsesAssumption, NegativeTTLType DEF IsMessage
    <3>3. nxdomain' = Put(nxdomain, n, expires) /\ entries' = entries /\ nodata' = nodata
      BY <3>1 DEF SetNXDomain
    <3>4. expires \in Nat /\ Dated(x, n, "NXDOMAIN", expires)
      BY <1>2, <1>7, <3>1, <3>2 DEF Dated
    <3> HIDE DEF n, expires
    <3>5. ASSUME NEW l \in DOMAIN nxdomain' PROVE NXDomainGood(l)'
      <4>1. CASE l = n
        <5>1. nxdomain'[l] = expires
          BY <3>3, <4>1 DEF Put
        <5> QED BY <1>1, <3>2, <3>4, <4>1, <5>1 DEF NXDomainGood, Dated
      <4>2. CASE l # n
        <5>1. l \in DOMAIN nxdomain /\ nxdomain'[l] = nxdomain[l]
          BY <3>3, <3>5, <4>2 DEF Put
        <5> QED BY <1>1, <5>1 DEF CacheGood, NXDomainGood, Dated
      <4> QED BY <4>1, <4>2
    <3>6. \A l \in DOMAIN entries' : EntryGood(l)'
      BY <1>1, <3>3 DEF CacheGood, EntryGood, Vouched, Sent
    <3>7. \A l \in DOMAIN nodata' : NoDataGood(l)'
      BY <1>1, <3>3 DEF CacheGood, NoDataGood, Dated
    <3> QED BY <3>5, <3>6, <3>7 DEF CacheGood
  <2>3. CASE w.kind = "nodata"
    <3> DEFINE expires == now + w.ttl
               k == <<n, t>>
    <3>1. /\ SetNoData(n, t, w.ttl)
          /\ n = x.question.name /\ t = x.question.type
          /\ w.ttl = NegativeTTL(x.question.zone, x.resp.ns)
          /\ x.resp.rcode = "NOERROR" /\ ~HasNS(x.resp.ns)
          /\ AnswerPositions(x.question.zone, n, x.resp.answer) = {}
      BY <1>1, <1>4, <2>3 DEF WriteGood, NegativeGood
    <3>2. k \in Name \X Type /\ w.ttl \in Nat /\ k[1] = n /\ k[2] = t
      BY <1>3, <3>1, QuestionsAssumption, ResponsesAssumption, NegativeTTLType DEF IsMessage
    <3>3. nodata' = Put(nodata, k, expires) /\ entries' = entries /\ nxdomain' = nxdomain
      BY <3>1 DEF SetNoData
    <3>4. expires \in Nat /\ Dated(x, n, "NOERROR", expires)
      BY <1>2, <1>7, <3>1, <3>2 DEF Dated
    <3> HIDE DEF n, t, k, expires
    <3>5. ASSUME NEW l \in DOMAIN nodata' PROVE NoDataGood(l)'
      <4>1. CASE l = k
        <5>1. nodata'[l] = expires
          BY <3>3, <4>1 DEF Put
        <5> QED BY <1>1, <3>1, <3>2, <3>4, <4>1, <5>1 DEF NoDataGood, Dated
      <4>2. CASE l # k
        <5>1. l \in DOMAIN nodata /\ nodata'[l] = nodata[l]
          BY <3>3, <3>5, <4>2 DEF Put
        <5> QED BY <1>1, <5>1 DEF CacheGood, NoDataGood, Dated
      <4> QED BY <4>1, <4>2
    <3>6. \A l \in DOMAIN entries' : EntryGood(l)'
      BY <1>1, <3>3 DEF CacheGood, EntryGood, Vouched, Sent
    <3>7. \A l \in DOMAIN nxdomain' : NXDomainGood(l)'
      BY <1>1, <3>3 DEF CacheGood, NXDomainGood, Dated
    <3> QED BY <3>5, <3>6, <3>7 DEF CacheGood
  <2> QED BY <1>1, <2>1, <2>2, <2>3
<1> QED BY <1>1, <1>5, <1>6, <1>8, OwnStep

(* Time passes between writes only.                                        *)
LEMMA TickIInv ==
    ASSUME IInv, Tick
    PROVE  IInv'
<1> USE DEF IInv
<1>1. /\ now < MaxNow /\ now' = now + 1
      /\ \A c \in Calls : pc[c] # "write"
      /\ UNCHANGED <<cacheVars, pc, question, tried, expired, todo, result, received>>
  BY DEF Tick, callVars
<1>2. CallsTyped'
  <2>1. now' \in 0..MaxNow
    BY <1>1, MaxNowAssumption DEF CallsTyped
  <2> QED BY <1>1, <2>1 DEF CallsTyped
<1>3. ReceivedGood'
  <2>1. 0..now \subseteq 0..now'
    BY <1>1, MaxNowAssumption DEF CallsTyped
  <2> QED BY <1>1, <2>1 DEF ReceivedGood
<1>4. CacheGood'
  BY <1>1, ReadsDelete, CacheKept
<1>5. \A c \in Calls : TodoGood(c)' /\ ResultGood(c)'
  BY <1>1 DEF TodoGood, ResultGood
<1> QED BY <1>2, <1>3, <1>4, <1>5

LEMMA NextIInv == IInv /\ [Next]_vars => IInv'
<1> SUFFICES ASSUME IInv, [Next]_vars PROVE IInv'
  OBVIOUS
<1>1. CASE UNCHANGED vars
  <2> USE <1>1 DEF vars, callVars
  <2>1. CallsTyped' /\ ReceivedGood'
    BY DEF IInv, CallsTyped, ReceivedGood
  <2>2. CacheGood'
    BY ReadsDelete, CacheKept DEF IInv
  <2>3. \A c \in Calls : TodoGood(c)' /\ ResultGood(c)'
    BY DEF IInv, TodoGood, ResultGood
  <2> QED BY <2>1, <2>2, <2>3 DEF IInv
<1>2. CASE Next
  BY <1>2, TickIInv, ReadCacheIInv, ReadNegativeIInv, QuietIInv, ServerRespondsIInv,
     WriteCacheIInv DEF Next, Step
<1> QED BY <1>1, <1>2

LEMMA Invariance == Spec => []IInv
BY InitIInv, NextIInv, PTL DEF Spec

-----------------------------------------------------------------------------
(* Calls, clock and cache have their types: entries hold sections, and an  *)
(* expiry is a time.                                                       *)
THEOREM LookupTypeOK == Spec => []TypeOK
<1>1. IInv => TypeOK
  BY DEF IInv, CallsTyped, ResultGood, CacheGood, EntryGood, NXDomainGood, NoDataGood, TypeOK
<1> QED BY <1>1, Invariance, PTL

(* Helper.Lookup returns what LookupContract allows, for any number of     *)
(* calls on one cache: the contract the recursive handler is proved on.    *)
THEOREM LookupKeepsContract == Spec => []ContractKept
<1>1. IInv => ContractKept
  BY DEF IInv, ResultGood, ContractKept
<1> QED BY <1>1, Invariance, PTL

(* Each record in the cache was sent by a server trusted for a zone that   *)
(* encloses its owner, and no live record is older than its own TTL.       *)
THEOREM CacheNotPoisoned == Spec => []PositiveJustified
<1>1. IInv => PositiveJustified
  <2> SUFFICES ASSUME IInv, NEW k \in DOMAIN entries, NEW i \in DOMAIN entries[k].rrs
               PROVE  \E x \in received :
                        /\ entries[k].rrs[i] \in Sent(x)
                        /\ IsSubDomain(x.question.zone, entries[k].rrs[i].owner)
                        /\ Expired(entries[k].expires) \/ now <= x.at + entries[k].rrs[i].ttl
    BY DEF PositiveJustified
  <2> DEFINE rr == entries[k].rrs[i]
             expires == entries[k].expires
  <2>1. EntryGood(k)
    BY DEF IInv, CacheGood
  <2>2. PICK x \in received : Vouched(x, rr, expires)
    BY <2>1 DEF EntryGood
  <2>3. expires \in Nat /\ rr.ttl \in Nat
    BY <2>1, MaxTTLAssumption DEF EntryGood, IsSection, RR, TTL
  <2>4. now \in Nat /\ x.at \in Nat
    BY MaxNowAssumption DEF IInv, CallsTyped, ReceivedGood
  <2> HIDE DEF rr, expires
  <2>5. Expired(expires) \/ now <= x.at + rr.ttl
    BY <2>2, <2>3, <2>4 DEF Vouched, Expired
  <2> QED BY <2>2, <2>5 DEF Vouched, rr, expires
<1> QED BY <1>1, Invariance, PTL

(* The lifetime of a negative answer is within what its SOA allows.        *)
LEMMA LifetimeStillTrue ==
    ASSUME NEW x \in received, IsSection(x.resp.ns), x.at \in Nat, now \in Nat,
           now <= x.at + NegativeTTL(x.question.zone, x.resp.ns)
    PROVE  StillTrue(x)
<1> DEFINE s == x.resp.ns
           soas == {i \in OfType(s, "SOA") : IsSubDomain(x.question.zone, s[i].owner)}
           soa == s[First(soas)]
<1>1. CASE soas = {}
  BY <1>1 DEF NegativeTTL, StillTrue, OwnSOAs, RecordsOf, OfType
<1>2. CASE soas # {}
  <2>1. soas \in SUBSET Nat
    BY DEF OfType, IsSection
  <2>2. First(soas) \in soas
    <3> HIDE DEF soas
    <3> QED BY <1>2, <2>1, FirstIsLeast
  <2>3. soa \in OwnSOAs(x) /\ soa.ttl \in Nat /\ soa.min \in Nat
    <3> DEFINE i == First(soas)
    <3> HIDE DEF i
    <3>1. i \in DOMAIN s /\ s[i].type = "SOA" /\ IsSubDomain(x.question.zone, s[i].owner)
      BY <2>2 DEF i, OfType
    <3>2. s[i] \in RR
      BY <3>1 DEF IsSection
    <3>3. s[i].ttl \in Nat /\ s[i].min \in Nat
      BY <3>2, MaxTTLAssumption DEF RR, TTL
    <3>4. s[i] \in OwnSOAs(x)
      BY <3>1 DEF OwnSOAs, RecordsOf
    <3> QED BY <3>3, <3>4 DEF i
  <2>4. NegativeTTL(x.question.zone, s) = Lesser(soa.ttl, soa.min)
    BY <1>2 DEF NegativeTTL
  <2> HIDE DEF soa, soas, s
  <2>5. now <= x.at + soa.ttl /\ now <= x.at + soa.min
    BY <2>3, <2>4 DEF Lesser, s
  <2> QED BY <2>3, <2>5 DEF StillTrue
<1> QED BY <1>1, <1>2

(* A live negative entry is what a server answered to that very question,  *)
(* no longer ago than a SOA of its zone allows, and never a referral.      *)
THEOREM NegativesNotMadeUp == Spec => []NegativeJustified
<1>1. ASSUME IInv, NEW x \in received, NEW n, NEW rcode, NEW expires \in Nat,
             Dated(x, n, rcode, expires), ~Expired(expires)
      PROVE  x \in Answered(n, rcode)
  <2> DEFINE ttl == NegativeTTL(x.question.zone, x.resp.ns)
  <2>1. ttl \in Nat
    BY <1>1, ResponsesAssumption, NegativeTTLType DEF IInv, ReceivedGood, IsMessage
  <2>2. now \in Nat /\ x.at \in Nat
    BY <1>1, MaxNowAssumption DEF IInv, CallsTyped, ReceivedGood
  <2>3. expires <= x.at + ttl
    BY <1>1 DEF Dated
  <2> HIDE DEF ttl
  <2>4. now <= x.at + ttl
    BY <1>1, <2>1, <2>2, <2>3 DEF Expired
  <2>5. IsSection(x.resp.ns)
    BY <1>1, ResponsesAssumption DEF IInv, ReceivedGood, IsMessage
  <2>6. StillTrue(x)
    BY <2>2, <2>4, <2>5, LifetimeStillTrue DEF ttl
  <2> QED BY <1>1, <2>6 DEF Answered, Dated
<1>2. IInv => NegativeJustified
  <2> SUFFICES ASSUME IInv PROVE NegativeJustified
    OBVIOUS
  <2>1. ASSUME NEW n \in DOMAIN nxdomain, NameAbsent(n)
        PROVE  Answered(n, "NXDOMAIN") # {}
    BY <1>1, <2>1 DEF IInv, CacheGood, NXDomainGood, NameAbsent
  <2>2. ASSUME NEW k \in DOMAIN nodata, TypeAbsent(k[1], k[2])
        PROVE  \E x \in Answered(k[1], "NOERROR") :
                /\ x.question.type = k[2]
                /\ ~HasNS(x.resp.ns)
                /\ AnswerPositions(x.question.zone, k[1], x.resp.answer) = {}
    <3>1. NoDataGood(k)
      BY DEF IInv, CacheGood
    <3>2. k = <<k[1], k[2]>> /\ nodata[k] \in Nat
      BY <3>1 DEF NoDataGood
    <3>3. ~Expired(nodata[k])
      BY <2>2, <3>2 DEF TypeAbsent
    <3> QED BY <1>1, <3>1, <3>3 DEF NoDataGood
  <2> QED BY <2>1, <2>2 DEF NegativeJustified
<1> QED BY <1>2, Invariance, PTL

-----------------------------------------------------------------------------
(* A response makes a call write finitely often.                           *)
LEMMA WritesFinite ==
    ASSUME NEW q \in Questions, NEW r \in Responses
    PROVE  IsFiniteSet(Writes(q, r))
<1> DEFINE m == FilterInBailiwick(q.zone, q.name, r)
           glue(rr) == Write(3, "set", <<rr.owner, rr.type>>,
                             GroupByNameType(m.extra, rr.owner, rr.type), 0)
           G == [rr \in RecordsOf(m.extra) |-> glue(rr)]
<1>1. IsFiniteSet(DOMAIN m.extra)
  BY FilteredMessage DEF IsMessage, IsSection
<1> HIDE DEF m
<1>2. IsFiniteSet(RecordsOf(m.extra))
  BY <1>1, FiniteImage DEF RecordsOf
<1>3. GlueWrites(m) = {G[rr] : rr \in RecordsOf(m.extra)}
  BY DEF GlueWrites
<1> HIDE DEF G
<1>4. IsFiniteSet(GlueWrites(m))
  BY <1>2, <1>3, FiniteImage
<1>5. /\ IsFiniteSet(AnswerWrites(q, m))
      /\ IsFiniteSet(DelegationWrites(q, r, m))
      /\ IsFiniteSet(NegativeWrites(q, r, m))
  BY FS_EmptySet, FS_Singleton DEF AnswerWrites, DelegationWrites, NegativeWrites
<1> QED BY <1>4, <1>5, FS_Union DEF Writes, m

LEMMA TodoFinite ==
    ASSUME IInv, NEW c \in Calls
    PROVE  IsFiniteSet(todo[c])
<1>1. CASE pc[c] = "write"
  <2>1. PICK x \in received : todo[c] \subseteq Writes(x.question, x.resp)
    BY <1>1 DEF IInv, TodoGood
  <2> QED BY <2>1, WritesFinite, FS_Subset DEF IInv, ReceivedGood
<1>2. CASE pc[c] # "write"
  BY <1>2, FS_EmptySet DEF IInv, TodoGood
<1> QED BY <1>1, <1>2

LEMMA ToGoType ==
    ASSUME IInv, NEW c \in Calls
    PROVE  /\ Stage(c) \in Nat
           /\ question[c].servers - tried[c] \in Nat
           /\ Cardinality(todo[c]) \in Nat
           /\ ToGo(c) \in Measures(4)
<1>1. question[c].servers \in Nat /\ tried[c] \in 0..question[c].servers
  BY QuestionsAssumption DEF IInv, CallsTyped
<1>2. question[c].servers - tried[c] \in Nat
  BY <1>1
<1>3. Stage(c) \in Nat /\ AsLongAs(pc[c] = "exchange") \in Nat
  BY DEF Stage, AsLongAs
<1>4. Cardinality(todo[c]) \in Nat
  BY TodoFinite, FS_CardinalityType
<1> QED BY <1>2, <1>3, <1>4 DEF ToGo, Measures

CallsMeasured == \A c \in Calls : ToGo(c) \in Measures(4)

LEMMA StepCounts ==
    ASSUME IInv, NEW c \in Calls, Step(c)
    PROVE  Below(ToGo(c)', ToGo(c))
<1>1. /\ DOMAIN pc = Calls /\ DOMAIN tried = Calls /\ DOMAIN todo = Calls
      /\ question[c].servers \in Nat /\ tried[c] \in 0..question[c].servers
  BY QuestionsAssumption DEF IInv, CallsTyped
<1>2. question' = question
  BY DEF Step, ReadCache, ReadNegative, GiveUp, Ask, ServerFails, ServerSilent,
         ServerResponds, WriteCache, Finish
<1>3. CASE \/ ReadCache(c) \/ ReadNegative(c) \/ GiveUp(c) \/ Finish(c)
           \/ \E r \in Responses : ServerResponds(c, r)
  <2>1. \/ pc[c] = "get" /\ pc'[c] \in {"done", "getNegative"}
        \/ pc[c] = "getNegative" /\ pc'[c] \in {"done", "query"}
        \/ pc[c] = "query" /\ pc'[c] = "done"
        \/ pc[c] = "exchange" /\ pc'[c] = "write"
        \/ pc[c] = "write" /\ pc'[c] = "done"
    BY <1>1, <1>3 DEF ReadCache, ReadNegative, GiveUp, Finish, ServerResponds, Goto
  <2>2. Stage(c)' < Stage(c)
    BY <2>1 DEF Stage
  <2> QED BY <2>2, FourBelow DEF ToGo
<1>4. CASE Ask(c)
  <2>1. pc[c] = "query" /\ pc'[c] = "exchange" /\ tried'[c] = tried[c] + 1
    BY <1>1, <1>4 DEF Ask, Goto
  <2>2. Stage(c)' = Stage(c)
    BY <2>1 DEF Stage
  <2>3. question'[c].servers - tried'[c] < question[c].servers - tried[c]
    BY <1>1, <1>2, <2>1
  <2> QED BY <2>2, <2>3, FourBelow DEF ToGo
<1>5. CASE ServerFails(c) \/ ServerSilent(c)
  <2>1. pc[c] = "exchange" /\ pc'[c] = "query" /\ tried' = tried
    BY <1>1, <1>5 DEF ServerFails, ServerSilent, Goto
  <2>2. Stage(c)' = Stage(c)
    BY <2>1 DEF Stage
  <2>3. AsLongAs(pc[c] = "exchange")' < AsLongAs(pc[c] = "exchange")
    BY <2>1 DEF AsLongAs
  <2> QED BY <1>2, <2>1, <2>2, <2>3, FourBelow DEF ToGo
<1>6. CASE WriteCache(c)
  <2>1. PICK w \in todo[c] : todo' = [todo EXCEPT ![c] = @ \ {w}]
    BY <1>6 DEF WriteCache
  <2>2. pc[c] = "write" /\ pc' = [pc EXCEPT ![c] = "write"] /\ tried' = tried
    BY <1>6 DEF WriteCache, Goto
  <2>3. pc' = pc
    BY <2>2 DEF IInv, CallsTyped
  <2>4. Stage(c)' = Stage(c) /\ AsLongAs(pc[c] = "exchange")' = AsLongAs(pc[c] = "exchange")
    BY <2>3 DEF Stage
  <2>5. todo'[c] = todo[c] \ {w}
    BY <1>1, <2>1
  <2>6. Cardinality(todo'[c]) < Cardinality(todo[c])
    <3>1. Cardinality(todo[c] \ {w}) = Cardinality(todo[c]) - 1
      BY <2>1, TodoFinite, FS_RemoveElement
    <3>2. Cardinality(todo[c]) \in Nat
      BY ToGoType
    <3> QED BY <2>5, <3>1, <3>2
  <2> QED BY <1>2, <2>2, <2>4, <2>6, FourBelow DEF ToGo
<1> QED BY <1>3, <1>4, <1>5, <1>6 DEF Step

(* Every step but those of its own leaves a call where it is.              *)
LEMMA OthersWait ==
    ASSUME IInv, Next, NEW c \in Calls, ~Step(c)
    PROVE  ToGo(c)' = ToGo(c)
<1>1. CASE Tick
  BY <1>1 DEF Tick, callVars, ToGo, Stage
<1>2. ASSUME NEW d \in Calls, ContextEnds(d)
      PROVE  ToGo(c)' = ToGo(c)
  BY <1>2 DEF ContextEnds, ToGo, Stage
<1>3. ASSUME NEW d \in Calls, Step(d), d # c
      PROVE  ToGo(c)' = ToGo(c)
  <2>1. DOMAIN pc = Calls /\ DOMAIN tried = Calls /\ DOMAIN todo = Calls
    BY DEF IInv, CallsTyped
  <2>2. question' = question /\ pc'[c] = pc[c] /\ tried'[c] = tried[c] /\ todo'[c] = todo[c]
    <3>1. CASE ReadCache(d) \/ ReadNegative(d)
      BY <1>3, <2>1, <3>1 DEF ReadCache, ReadNegative, Goto
    <3>2. CASE GiveUp(d) \/ Ask(d) \/ ServerFails(d) \/ ServerSilent(d) \/ Finish(d)
      BY <1>3, <2>1, <3>2 DEF GiveUp, Ask, ServerFails, ServerSilent, Finish, Goto
    <3>3. CASE WriteCache(d) \/ \E r \in Responses : ServerResponds(d, r)
      BY <1>3, <2>1, <3>3 DEF WriteCache, ServerResponds, Goto
    <3> QED BY <1>3, <3>1, <3>2, <3>3 DEF Step
  <2> QED BY <2>2 DEF ToGo, Stage
<1> QED BY <1>1, <1>2, <1>3 DEF Next

(* However many calls share the cache, each step of a call lowers its own  *)
(* measure, which cannot run down for ever (BelowWellFounded), and no step *)
(* of the others raises it.                                                *)
THEOREM CallsRunDown == Spec => CallsGetOn
<1> DEFINE A == \A c \in Calls : IF Step(c)
                                THEN ToGo(c)' \in Measures(4) /\ Below(ToGo(c)', ToGo(c))
                                ELSE ToGo(c)' = ToGo(c)
<1>1. IInv /\ [Next]_vars => [A]_vars
  <2>1. IInv => CallsMeasured
    BY ToGoType DEF CallsMeasured
  <2>2. IInv' => CallsMeasured'
    BY <2>1, PTL
  <2>3. IInv' => \A c \in Calls : ToGo(c)' \in Measures(4)
    BY <2>2 DEF CallsMeasured
  <2> QED BY <2>3, NextIInv, StepCounts, OthersWait
<1> QED BY <1>1, Invariance, PTL DEF Spec, CallsGetOn
=============================================================================
