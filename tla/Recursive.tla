----------------------------- MODULE Recursive -----------------------------
(***************************************************************************)
(* RecursiveHandler (handlers/recursive.go): one call of Handle.           *)
(*                                                                         *)
(* Handle resolves the queried name with resolveIterative and restarts it  *)
(* for a new name when a CNAME chain was cut at a zone boundary.           *)
(* resolveIterative walks down the delegations from the root, one lookup   *)
(* per hop, and a referral without glue makes it resolve the address of a  *)
(* nameserver by calling itself.  The nested calls are frames: frame[0] is *)
(* the resolution Handle asked for, frame[depth] the one that is running,  *)
(* and ret is what it returned when its caller has not resumed yet.        *)
(*                                                                         *)
(* What Helper.Lookup returns is anything LookupContract allows, or an     *)
(* error.                                                                  *)
(***************************************************************************)
EXTENDS LookupContract, Referral, Variant

CONSTANTS MaxHops,          \* maxHops
          MaxCNAMERestarts, \* maxCNAMERestarts
          MaxGlueDepth,     \* maxGlueDepth
          MaxTotalLookups,  \* maxTotalLookups
          Queries,          \* the questions asked: [name, type]
          RootHints         \* the hosts that serve the root

ASSUME LimitsAssumption == /\ MaxHops \in Nat
                           /\ MaxCNAMERestarts \in Nat \ {0}
                           /\ MaxGlueDepth \in Nat
                           /\ MaxTotalLookups \in Nat
ASSUME QueriesAssumption == Queries \subseteq [name : Name, type : Type]
ASSUME RootHintsAssumption == RootHints \in SUBSET Name /\ RootHints # {}

VARIABLES query,        \* the question of the client
          budget,       \* lookups left to the whole call
          lookups,      \* lookups made by the whole call (history)
          restarts,     \* resolutions Handle has restarted
          answer,       \* the records collected for the client
          depth,        \* nesting of the resolution that is running
          frame,        \* the resolutions, by nesting
          ret,          \* what the running resolution returned, if it has
          outcome       \* what Handle returned, if it has

vars == <<query, budget, lookups, restarts, answer, depth, frame, ret, outcome>>

-----------------------------------------------------------------------------
(* A resolution: the name it resolves, the zone it has come down to and    *)
(* the hosts serving it, the hops made, and while it resolves the address  *)
(* of a nameserver, the referral it follows and the hosts still to try.    *)
Fresh(n) == [name |-> n, zone |-> Root, servers |-> RootHints, hop |-> 0,
             referral |-> NoRecords, untried |-> {}]
Unused == Fresh(Root)

(* What the running resolution has returned, and what Handle has.          *)
NoResult == Found("NOERROR", NoRecords)
Running == [state |-> "running", result |-> NoResult]
Failed == [state |-> "failed", result |-> NoResult]
Returned(r) == [state |-> "returned", result |-> r]
Succeeded == ret.state = "returned"

Pending == [state |-> "pending", rcode |-> "NOERROR", answer |-> {}, ns |-> {}]
Error == [Pending EXCEPT !.state = "error"]
Response(rcode, rrs, ns) ==
    [state |-> "response", rcode |-> rcode, answer |-> rrs, ns |-> RecordsOf(ns)]

QType == IF depth = 0 THEN query.type ELSE "A"

Init == /\ query \in Queries
        /\ budget = MaxTotalLookups
        /\ lookups = 0
        /\ restarts = 0
        /\ answer = {}
        /\ depth = 0
        /\ frame = [d \in 0..MaxGlueDepth |-> IF d = 0 THEN Fresh(query.name) ELSE Unused]
        /\ ret = Running
        /\ outcome = Pending

-----------------------------------------------------------------------------
(* resolveIterative, at the top of its loop.                               *)
Looping == outcome = Pending /\ ret = Running

TooManyHops ==
    /\ Looping
    /\ frame[depth].hop >= MaxHops
    /\ ret' = Failed
    /\ UNCHANGED <<query, budget, lookups, restarts, answer, depth, frame, outcome>>

OutOfBudget ==
    /\ Looping
    /\ frame[depth].hop < MaxHops
    /\ budget <= 0
    /\ ret' = Failed
    /\ UNCHANGED <<query, budget, lookups, restarts, answer, depth, frame, outcome>>

(* Mutant: one lookup more than the budget.                                *)
LookupOverBudget ==
    /\ Looping
    /\ frame[depth].hop < MaxHops
    /\ budget + 1 > 0
    /\ budget' = IF budget > 0 THEN budget - 1 ELSE 0
    /\ lookups' = lookups + 1
    /\ UNCHANGED <<query, restarts, answer, outcome>>

Lookup == /\ Looping
          /\ frame[depth].hop < MaxHops
          /\ budget > 0
          /\ budget' = budget - 1
          /\ lookups' = lookups + 1
          /\ UNCHANGED <<query, restarts, answer, outcome>>

LookupFails == /\ Lookup
               /\ ret' = Failed
               /\ UNCHANGED <<depth, frame>>

IsReferral(r) == /\ r.rcode = "NOERROR"
                 /\ DOMAIN r.answer = {}
                 /\ HasNS(r.ns)

(* An answer, an error code, or NODATA ends the walk.                      *)
LookupEnds(r) == /\ Lookup
                 /\ ~IsReferral(r)
                 /\ ret' = Returned(r)
                 /\ UNCHANGED <<depth, frame>>

(* The walk comes down to the delegated zone and asks hosts next, or waits *)
(* for the address of a host, with those at positions I still to try.      *)
Descend(f, ns, hosts) ==
    [name |-> f.name, zone |-> DelegationOwner(ns), servers |-> hosts, hop |-> f.hop + 1,
     referral |-> NoRecords, untried |-> {}]

Await(f, ns, I) ==
    [name |-> f.name, zone |-> f.zone, servers |-> f.servers, hop |-> f.hop,
     referral |-> ns, untried |-> I]

NoProgress(r) == /\ Lookup
                 /\ IsReferral(r)
                 /\ EqualFold(DelegationOwner(r.ns), frame[depth].zone)
                 /\ ret' = Failed
                 /\ UNCHANGED <<depth, frame>>

(* Mutant: a referral need not make progress.                              *)
ReferAnywhere(r) == Lookup /\ IsReferral(r)

Refer(r) == /\ Lookup
            /\ IsReferral(r)
            /\ ~EqualFold(DelegationOwner(r.ns), frame[depth].zone)

Glued(r) == GluedHosts(r.ns, UniqueNS(r.ns), r.extra)

FollowGlue(r) ==
    /\ Refer(r)
    /\ Glued(r) # {}
    /\ frame' = [frame EXCEPT ![depth] = Descend(frame[depth], r.ns, Glued(r))]
    /\ UNCHANGED <<depth, ret>>

GlueTooDeep(r) ==
    /\ Refer(r)
    /\ Glued(r) = {}
    /\ depth >= MaxGlueDepth
    /\ ret' = Failed
    /\ UNCHANGED <<depth, frame>>

(* resolveIterative(name of the first nameserver, A, budget, depth + 1).   *)
ResolveNS(r) ==
    LET first == First(UniqueNS(r.ns))
    IN  /\ Refer(r)
        /\ Glued(r) = {}
        /\ depth < MaxGlueDepth
        /\ frame' = [frame EXCEPT
                        ![depth] = Await(frame[depth], r.ns, UniqueNS(r.ns) \ {first}),
                        ![depth + 1] = Fresh(r.ns[first].target)]
        /\ depth' = depth + 1
        /\ UNCHANGED ret

-----------------------------------------------------------------------------
(* resolveNameservers, when the resolution of a host's address returns.    *)
HostReturns == /\ outcome = Pending
               /\ ret # Running
               /\ depth > 0
               /\ UNCHANGED <<query, budget, lookups, restarts, answer, outcome>>

HasAddress == Succeeded /\ OfType(ret.result.answer, "A") # {}

caller == frame[depth - 1]

UseAddress ==
    /\ HostReturns
    /\ HasAddress
    /\ frame' = [frame EXCEPT
                    ![depth - 1] = Descend(caller, caller.referral, {frame[depth].name}),
                    ![depth] = Unused]
    /\ depth' = depth - 1
    /\ ret' = Running

(* Mutant: the host tried stays among those to try.                        *)
TryHostAgain ==
    LET next == First(caller.untried)
    IN  /\ HostReturns
        /\ ~HasAddress
        /\ caller.untried # {}
        /\ frame' = [frame EXCEPT ![depth] = Fresh(caller.referral[next].target)]
        /\ ret' = Running
        /\ UNCHANGED depth

TryNextHost ==
    LET next == First(caller.untried)
    IN  /\ HostReturns
        /\ ~HasAddress
        /\ caller.untried # {}
        /\ frame' = [frame EXCEPT
                        ![depth - 1] = Await(caller, caller.referral, caller.untried \ {next}),
                        ![depth] = Fresh(caller.referral[next].target)]
        /\ ret' = Running
        /\ UNCHANGED depth

NoHostResolved ==
    /\ HostReturns
    /\ ~HasAddress
    /\ caller.untried = {}
    /\ frame' = [frame EXCEPT ![depth] = Unused]
    /\ depth' = depth - 1
    /\ ret' = Failed

-----------------------------------------------------------------------------
(* Handle, when the resolution it asked for returns.                       *)
ResolutionReturns == /\ outcome = Pending
                     /\ ret # Running
                     /\ depth = 0
                     /\ UNCHANGED <<query, budget, lookups, depth>>

HandleFails == /\ ResolutionReturns
               /\ ret = Failed
               /\ outcome' = Error
               /\ UNCHANGED <<restarts, answer, frame, ret>>

Collect == /\ ResolutionReturns
           /\ Succeeded
           /\ answer' = answer \cup RecordsOf(ret.result.answer)

IsNegative(r) == r.rcode # "NOERROR" \/ DOMAIN r.answer = {}

HandleNegative == /\ Collect
                  /\ IsNegative(ret.result)
                  /\ outcome' = Response(ret.result.rcode, answer', ret.result.ns)
                  /\ UNCHANGED <<restarts, frame, ret>>

Targets == UnresolvedCNAMETarget(ret.result.answer, frame[0].name, query.type)

HandleComplete == /\ Collect
                  /\ ~IsNegative(ret.result)
                  /\ Targets = {}
                  /\ outcome' = Response("NOERROR", answer', NoRecords)
                  /\ UNCHANGED <<restarts, frame, ret>>

(* A cut chain: resolve its last name from the root, unless that would be  *)
(* a restart too many.                                                     *)
Restart == /\ Collect
           /\ ~IsNegative(ret.result)
           /\ restarts' = restarts + 1

(* Mutants: a restart goes on in the zone come down to; restarts are not   *)
(* limited.                                                                *)
RestartInZone ==
    /\ Restart
    /\ restarts' < MaxCNAMERestarts
    /\ \E target \in Targets :
            frame' = [frame EXCEPT ![0] = [Fresh(target) EXCEPT !.zone = frame[0].zone]]
    /\ ret' = Running
    /\ UNCHANGED outcome

RestartWithoutLimit ==
    /\ Restart
    /\ \E target \in Targets : frame' = [frame EXCEPT ![0] = Fresh(target)]
    /\ ret' = Running
    /\ UNCHANGED outcome

HandleRestart == /\ Restart
                 /\ restarts' < MaxCNAMERestarts
                 /\ \E target \in Targets : frame' = [frame EXCEPT ![0] = Fresh(target)]
                 /\ ret' = Running
                 /\ UNCHANGED outcome

TooManyRestarts == /\ Restart
                   /\ Targets # {}
                   /\ restarts' >= MaxCNAMERestarts
                   /\ outcome' = Error
                   /\ UNCHANGED <<frame, ret>>

-----------------------------------------------------------------------------
LookupReturns ==
    \/ LookupFails
    \/ \E r \in LookupResults(frame[depth].zone, frame[depth].name, QType) :
        \/ LookupEnds(r)
        \/ NoProgress(r)
        \/ FollowGlue(r)
        \/ GlueTooDeep(r)
        \/ ResolveNS(r)

Next == \/ TooManyHops
        \/ OutOfBudget
        \/ LookupReturns
        \/ UseAddress
        \/ TryNextHost
        \/ NoHostResolved
        \/ HandleFails
        \/ HandleNegative
        \/ HandleComplete
        \/ HandleRestart
        \/ TooManyRestarts

(* Every lookup returns: its queries carry the deadline of the request.    *)
Spec == Init /\ [][Next]_vars /\ WF_vars(Next)
-----------------------------------------------------------------------------
IsFrame(f) == /\ f.name \in Name
              /\ f.zone \in Name
              /\ f.servers \in SUBSET Name
              /\ f.hop \in 0..MaxHops
              /\ IsSection(f.referral)
              /\ f.untried \subseteq OfType(f.referral, "NS")

TypeOK == /\ query \in Queries
          /\ budget \in 0..MaxTotalLookups
          /\ lookups \in Nat
          /\ restarts \in 0..MaxCNAMERestarts
          /\ \A rr \in answer : rr \in RR
          /\ depth \in 0..MaxGlueDepth
          /\ DOMAIN frame = 0..MaxGlueDepth
          /\ \A d \in 0..MaxGlueDepth : IsFrame(frame[d])
          /\ ret.state \in {"running", "failed", "returned"}
          /\ IsMessage(ret.result)
          /\ outcome.state \in {"pending", "error", "response"}

(* One call of Handle makes no more lookups than its budget, the nested    *)
(* resolutions of nameserver addresses and the restarts included           *)
(* (recursive.go:30-34).                                                   *)
LookupsBounded == lookups <= MaxTotalLookups

(* What Helper.Lookup has its caller assert (helper.go:49-50): the zone a  *)
(* lookup trusts its servers for is the name looked up or encloses it - at *)
(* every level of nesting, after any referrals and restarts.  The handler  *)
(* never checks it.                                                        *)
ZoneEnclosesName ==
    \A d \in 0..depth : IsSubDomain(frame[d].zone, frame[d].name)

(* A referral loop cannot form: each hop has gone down at least one label, *)
(* so a resolution makes no more hops than its name has labels and reaches *)
(* maxHops only for names that long.                                       *)
HopsWithinLabels ==
    \A d \in 0..depth : frame[d].hop <= Len(frame[d].zone)

(* A walk only ever narrows the zone it trusts: a hop replaces it by one   *)
(* strictly below, also when the hop had to wait for the address of a      *)
(* nameserver and other resolutions ran in between.                        *)
Narrows(old, new) == /\ IsSubDomain(old, new)
                     /\ Len(old) < Len(new)

HopNarrows ==
    \A d \in 0..depth :
        d <= depth' /\ frame'[d].hop > frame[d].hop
            => Narrows(frame[d].zone, frame'[d].zone)

ZonesNarrow == [][HopNarrows]_vars

(* The client is told nothing it did not ask for: in a response, each      *)
(* record answers the queried name or a name the CNAMEs of the response    *)
(* lead to from there: a name in every set that has the queried name and   *)
(* is closed under the CNAMEs.  Glue, addresses of nameservers and the     *)
(* answers of nested resolutions stay out, whatever servers send and the   *)
(* cache holds.  A SOA is set apart: the cache keeps it among the NS       *)
(* records of a referral that carried one.                                 *)
LeadsOn(rrs, Names) ==
    \A rr \in rrs :
        rr.type = "CNAME" /\ (\E n \in Names : EqualFold(rr.owner, n)) => rr.target \in Names

Owned(rrs, Names) ==
    \A rr \in rrs : rr.type = "SOA" \/ \E n \in Names : EqualFold(rr.owner, n)

AnswerIsAChain ==
    outcome.state = "response" =>
        LET rrs == outcome.answer
        IN  \A Names \in SUBSET ({query.name} \cup {rr.target : rr \in rrs}) :
                query.name \in Names /\ LeadsOn(rrs, Names) => Owned(rrs, Names)

(* Nothing in a call of Handle can go on for ever: every step uses up      *)
(* something that no later step but one using up more can restore.  Only a *)
(* restart renews the walk, only a lookup brings hosts to try, and         *)
(* a host that failed is not tried again, not even when the budget is      *)
(* spent and each new resolution fails before its first lookup.            *)
HostsToTry == IF depth = 0 THEN 0 ELSE Cardinality(frame[depth - 1].untried)

Remaining == <<AsLongAs(outcome = Pending), MaxCNAMERestarts - restarts, budget,
               depth, HostsToTry, AsLongAs(ret = Running)>>

EveryStepCounts == [][Remaining' \in Measures(6) /\ Below(Remaining', Remaining)]_vars

(* Handle returns, whatever the servers answer.                            *)
Terminates == <>(outcome # Pending)
=============================================================================
