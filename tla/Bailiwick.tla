----------------------------- MODULE Bailiwick -----------------------------
(***************************************************************************)
(* What the resolver believes of a response (resolver/helper.go): the      *)
(* records that survive filterInBailiwick, the zone a referral delegates   *)
(* to, and the lifetime of a negative answer.                              *)
(*                                                                         *)
(* filterInBailiwick follows the CNAME chain of the answer section with a  *)
(* loop; AnswerPositions says what that loop computes (FilterLoop has the  *)
(* loop itself, and shows the two agree).                                  *)
(***************************************************************************)
EXTENDS Records

CONSTANTS NoZone,               \* "": no record of the response delegates
          DefaultNegativeTTL    \* lifetime of a negative answer without SOA

ASSUME NoZoneAssumption == NoZone \notin Name
ASSUME DefaultNegativeTTLAssumption == DefaultNegativeTTL \in Nat

CNAMEsAt(s, n) == At(s, n) \cap OfType(s, "CNAME")

(* The names of a response that the chain may go through: inside zone.     *)
ChainNames(zone, name, answer) ==
    {n \in {name} \cup {answer[i].target : i \in OfType(answer, "CNAME")} :
        IsSubDomain(zone, n)}

(* Among the records at a name the first CNAME continues the chain.        *)
NextInChain(answer, Names) ==
    [n \in {m \in Names : CNAMEsAt(answer, m) # {}} |->
        answer[First(CNAMEsAt(answer, n))].target]

(* Mutant: every record of the answer section is believed.                 *)
EveryPosition(zone, name, answer) == DOMAIN answer

AnswerPositions(zone, name, answer) ==
    LET Names == ChainNames(zone, name, answer)
        reached == Orbit(name, NextInChain(answer, Names), Names)
    IN  UNION {At(answer, n) : n \in reached}

(* Mutant: a referral may lead out of the zone.                            *)
DelegationsAnyZone(zone, name, ns) ==
    {i \in OfType(ns, "NS") : IsSubDomain(ns[i].owner, name)}

(* NS records whose owner lies between zone and name; the first of them    *)
(* names the delegated zone and the others must agree with it.             *)
Delegations(zone, name, ns) ==
    {i \in OfType(ns, "NS") : /\ IsSubDomain(zone, ns[i].owner)
                              /\ IsSubDomain(ns[i].owner, name)}

DelegatedZone(zone, name, ns) ==
    IF Delegations(zone, name, ns) = {}
    THEN NoZone
    ELSE ns[First(Delegations(zone, name, ns))].owner

NsPositions(zone, name, ns) ==
    {i \in Delegations(zone, name, ns) :
        EqualFold(ns[i].owner, DelegatedZone(zone, name, ns))}
    \cup {i \in OfType(ns, "SOA") : IsSubDomain(zone, ns[i].owner)}

ExtraPositions(delegated, extra) ==
    {i \in DOMAIN extra : delegated # NoZone /\ IsSubDomain(delegated, extra[i].owner)}

(* The filtered response, as Lookup returns it.                            *)
FilterInBailiwick(zone, name, resp) ==
    LET delegated == DelegatedZone(zone, name, resp.ns)
    IN  [rcode  |-> resp.rcode,
         answer |-> Keep(resp.answer, AnswerPositions(zone, name, resp.answer)),
         ns     |-> Keep(resp.ns, NsPositions(zone, name, resp.ns)),
         extra  |-> Keep(resp.extra, ExtraPositions(delegated, resp.extra))]

HasNS(ns) == OfType(ns, "NS") # {}

Lesser(a, b) == IF b < a THEN b ELSE a

(* Mutant: a SOA of any zone dates a negative answer.                      *)
NegativeTTLAnyZone(zone, ns) ==
    LET soas == OfType(ns, "SOA")
        soa == ns[First(soas)]
    IN  IF soas = {} THEN DefaultNegativeTTL ELSE Lesser(soa.ttl, soa.min)

(* The first SOA inside zone dates a negative answer, by the lesser of its *)
(* TTL and its MINIMUM.                                                    *)
NegativeTTL(zone, ns) ==
    LET soas == {i \in OfType(ns, "SOA") : IsSubDomain(zone, ns[i].owner)}
        soa == ns[First(soas)]
    IN  IF soas = {} THEN DefaultNegativeTTL ELSE Lesser(soa.ttl, soa.min)
=============================================================================
