--------------------------- MODULE LookupContract ---------------------------
(***************************************************************************)
(* What a caller of Helper.Lookup may get without an error, when servers   *)
(* give any of a set of responses to any question: a response filtered for *)
(* the zone the servers were asked as, or what such responses can have     *)
(* left in the shared cache.  Lookup is shown to keep to it; handlers are  *)
(* modelled on it.                                                         *)
(***************************************************************************)
EXTENDS Bailiwick

CONSTANT Responses      \* the responses servers may give

ASSUME ResponsesAssumption == \A r \in Responses : IsMessage(r)

(* What Helper.Lookup may find in the cache for a key: an earlier answer   *)
(* for it, the NS records of a delegation to it, or the glue of a referral.*)
Zones(n) == {SubSeq(n, 1, k) : k \in 0..Len(n)}

CachedAnswers(n, t) ==
    {Keep(r.answer, AnswerPositions(z, n, r.answer)) :
        z \in Zones(n), r \in {m \in Responses : m.rcode = "NOERROR"}}

CachedDelegations(n) ==
    {Keep(p[2].ns, NsPositions(p[1], n, p[2].ns)) :
        p \in {q \in Zones(n) \X Responses : DelegatedZone(q[1], n, q[2].ns) = n}}

CachedGlue(n, t) ==
    {Keep(r.extra, {i \in OfType(r.extra, t) : r.extra[i].owner = n}) :
        r \in {m \in Responses :
                \E i \in OfType(m.ns, "NS") : IsSubDomain(m.ns[i].owner, n)}}

CachedRecords(n, t) ==
    {s \in CachedAnswers(n, t)
            \cup CachedGlue(n, t)
            \cup (IF t = "NS" THEN CachedDelegations(n) ELSE {}) : DOMAIN s # {}}

CachedNegatives ==
    {r.rcode : r \in {m \in Responses :
        m.rcode = "NXDOMAIN" \/ (m.rcode = "NOERROR" /\ ~HasNS(m.ns))}}

Found(rcode, s) == [rcode |-> rcode, answer |-> s, ns |-> NoRecords, extra |-> NoRecords]

LookupResults(zone, n, t) ==
    {FilterInBailiwick(zone, n, r) : r \in Responses}
    \cup {Found("NOERROR", s) : s \in CachedRecords(n, t)}
    \cup {Found(rcode, NoRecords) : rcode \in CachedNegatives}
=============================================================================
