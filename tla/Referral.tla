------------------------------ MODULE Referral ------------------------------
(***************************************************************************)
(* The functions RecursiveHandler applies to the result of a lookup        *)
(* (handlers/recursive.go): what a referral delegates to, which hosts      *)
(* serve the delegated zone and which of them have glue, and whether a     *)
(* CNAME chain was cut before it ended.                                    *)
(***************************************************************************)
EXTENDS Bailiwick

(* The owner of the first NS record.                                       *)
DelegationOwner(ns) == ns[First(OfType(ns, "NS"))].owner

(* The first position of each nameserver host, a host being the same in    *)
(* any spelling.                                                           *)
UniqueNS(ns) ==
    {i \in OfType(ns, "NS") :
        \A j \in OfType(ns, "NS") : EqualFold(ns[j].target, ns[i].target) => i <= j}

(* The hosts, among those at positions I of ns, that some address record   *)
(* of extra belongs to.                                                    *)
GluedHosts(ns, I, extra) ==
    {ns[i].target : i \in {j \in I : At(extra, ns[j].target)
                                        \cap (OfType(extra, "A") \cup OfType(extra, "AAAA")) # {}}}

(* unresolvedCNAMETarget: from name, a name without a record of the type   *)
(* asked for continues at the target of its last CNAME; the walk asks for  *)
(* a restart at the first name, other than the start, that owns nothing.   *)
(* At most one name is returned; none when no restart is needed.           *)
(* ChainWalk has the walk itself, and shows the two agree.                 *)
ContinuesAt(answer, qtype, Names) ==
    [n \in {m \in Names : At(answer, m) \cap OfType(answer, qtype) = {} /\ CNAMEsAt(answer, m) # {}} |->
        answer[Last(CNAMEsAt(answer, n))].target]

UnresolvedCNAMETarget(answer, name, qtype) ==
    LET Names == {name} \cup {answer[i].target : i \in OfType(answer, "CNAME")}
        walk == Orbit(name, ContinuesAt(answer, qtype, Names), Names)
    IN  IF qtype = "CNAME"
        THEN {}
        ELSE {n \in walk : n # name /\ At(answer, n) = {}}
=============================================================================
