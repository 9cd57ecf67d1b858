------------------------------ MODULE Records ------------------------------
(***************************************************************************)
(* Names, resource records and message sections, as the resolver sees them *)
(* through github.com/miekg/dns.                                           *)
(*                                                                         *)
(* A name is the sequence of its labels counted from the root, so that a   *)
(* zone is a prefix of the names below it.  Labels keep the spelling they  *)
(* arrived with: Lower folds the case of one label, and only the functions *)
(* that ignore case in the code ignore it here.                            *)
(*                                                                         *)
(* A section of a message is a function from positions to records.  A raw  *)
(* section has positions 1..n; filtering a section keeps some positions,   *)
(* so the records kept stay in order and stay comparable with the original.*)
(***************************************************************************)
EXTENDS Naturals, Sequences, FiniteSets

CONSTANTS Label,      \* the labels names are made of, in any spelling
          Lower,      \* the lower-case form of each label
          MaxTTL      \* largest TTL of a record (2^32 - 1 on the wire)

ASSUME LowerAssumption == Lower \in [Label -> Label]
ASSUME MaxTTLAssumption == MaxTTL \in Nat

Name == Seq(Label)
Root == << >>

Type == {"A", "AAAA", "CNAME", "NS", "SOA"}
Rcode == {"NOERROR", "NXDOMAIN", "SERVFAIL"}

TTL == 0..MaxTTL

(* target is the name a CNAME or NS record points to (the owner itself in  *)
(* a record that has none); min is the MINIMUM field of a SOA record.      *)
RR == [owner : Name, type : Type, target : Name, ttl : TTL, min : TTL]

IsSection(s) == /\ DOMAIN s \subseteq Nat /\ IsFiniteSet(DOMAIN s)
                /\ \A i \in DOMAIN s : s[i] \in RR

IsMessage(m) == /\ m.rcode \in Rcode
                /\ IsSection(m.answer)
                /\ IsSection(m.ns)
                /\ IsSection(m.extra)

(* strings.EqualFold on names, and dns.IsSubDomain(zone, n): n is zone or  *)
(* lies below it.  Both ignore case.                                       *)
EqualFold(a, b) == /\ Len(a) = Len(b)
                   /\ \A i \in 1..Len(a) : Lower[a[i]] = Lower[b[i]]

IsSubDomain(zone, n) == /\ Len(zone) <= Len(n)
                        /\ \A i \in 1..Len(zone) : Lower[zone[i]] = Lower[n[i]]

At(s, n) == {i \in DOMAIN s : EqualFold(s[i].owner, n)}
OfType(s, t) == {i \in DOMAIN s : s[i].type = t}
First(I) == CHOOSE i \in I : \A j \in I : i <= j
Last(I) == CHOOSE i \in I : \A j \in I : j <= i
Keep(s, I) == [i \in I |-> s[i]]
RecordsOf(s) == {s[i] : i \in DOMAIN s}
NoRecords == << >>

(***************************************************************************)
(* The names a chain visits: Orbit(n, step, Names) is the least set of     *)
(* Names that contains n and, with each m it contains, step[m].            *)
(***************************************************************************)
Orbit(n, step, Names) ==
    {m \in Names :
        \A S \in SUBSET Names :
            (/\ n \in Names => n \in S
             /\ \A k \in S \cap DOMAIN step : step[k] \in Names => step[k] \in S)
            => m \in S}
=============================================================================
