-------------------------- MODULE RecursiveProofs --------------------------
(***************************************************************************)
(* RecursiveHandler, for all limits, questions and responses: it keeps its *)
(* lookup budget, asks only servers of zones that enclose the name asked   *)
(* for, goes down at least a label with every hop, and answers a chain     *)
(* from the queried name.  GeminiHandler, the other handler that looks     *)
(* names up, has a budget for it as well and comes last.                   *)
(***************************************************************************)
EXTENDS Recursive, Gemini, RecordFacts

(* A referral a resolution follows: it delegates a zone strictly below the *)
(* one it came from, that encloses the name resolved.                      *)
Delegates(f, ns) ==
    /\ IsSection(ns)
    /\ HasNS(ns)
    /\ DelegationOwner(ns) \in Name
    /\ IsSubDomain(DelegationOwner(ns), f.name)
    /\ Narrows(f.zone, DelegationOwner(ns))

(* The resolutions that wait for the address of a nameserver.              *)
Waiting == \A d \in 0..depth : d < depth => /\ frame[d].hop < MaxHops
                                            /\ Delegates(frame[d], frame[d].referral)

BudgetKept == budget + lookups = MaxTotalLookups

RestartsLeft == outcome = Pending => restarts < MaxCNAMERestarts

IInv == /\ TypeOK
        /\ BudgetKept
        /\ RestartsLeft
        /\ Waiting
        /\ ZoneEnclosesName
        /\ HopsWithinLabels

-----------------------------------------------------------------------------
(* What Lookup returns is made of sections.                                *)
LEMMA NoRecordsRefer == ~HasNS(NoRecords)
BY NoRecordsSection DEF HasNS, OfType

LEMMA PositionsInDomain ==
    ASSUME NEW s, NEW z, NEW n
    PROVE  /\ AnswerPositions(z, n, s) \in SUBSET DOMAIN s
           /\ NsPositions(z, n, s) \in SUBSET DOMAIN s
           /\ ExtraPositions(z, s) \in SUBSET DOMAIN s
BY DEF AnswerPositions, At, NsPositions, Delegations, OfType, ExtraPositions

LEMMA FilteredMessage ==
    ASSUME NEW z, NEW n, NEW r \in Responses
    PROVE  IsMessage(FilterInBailiwick(z, n, r))
BY ResponsesAssumption, KeepSection, PositionsInDomain DEF IsMessage, FilterInBailiwick

LEMMA CachedSection ==
    ASSUME NEW n, NEW t, NEW s \in CachedRecords(n, t)
    PROVE  IsSection(s)
<1>1. ASSUME s \in CachedAnswers(n, t) PROVE IsSection(s)
  BY <1>1, ResponsesAssumption, KeepSection, PositionsInDomain DEF CachedAnswers, IsMessage
<1>2. ASSUME s \in CachedGlue(n, t) PROVE IsSection(s)
  BY <1>2, ResponsesAssumption, KeepSection DEF CachedGlue, IsMessage, OfType
<1>3. ASSUME s \in CachedDelegations(n) PROVE IsSection(s)
  BY <1>3, ResponsesAssumption, KeepSection, PositionsInDomain DEF CachedDelegations, IsMessage
<1> QED BY <1>1, <1>2, <1>3 DEF CachedRecords

LEMMA ResultMessage ==
    ASSUME NEW z, NEW n, NEW t, NEW r \in LookupResults(z, n, t)
    PROVE  IsMessage(r)
<1>1. ASSUME NEW s, IsSection(s), NEW rcode \in Rcode PROVE IsMessage(Found(rcode, s))
  BY <1>1, NoRecordsSection DEF IsMessage, Found
<1>2. CachedNegatives \subseteq Rcode
  BY ResponsesAssumption DEF CachedNegatives, IsMessage
<1> QED BY <1>1, <1>2, FilteredMessage, CachedSection, NoRecordsSection DEF LookupResults, Rcode

(* A referral in a result delegates a zone between the one trusted and the *)
(* name looked up (helper.go:289-314, recursive.go:105-108).               *)
LEMMA ReferralDelegates ==
    ASSUME NEW z \in Name, NEW n \in Name, NEW t,
           NEW r \in LookupResults(z, n, t), IsReferral(r)
    PROVE  /\ DelegationOwner(r.ns) \in Name
           /\ IsSubDomain(z, DelegationOwner(r.ns))
           /\ IsSubDomain(DelegationOwner(r.ns), n)
<1>1. PICK m \in Responses : r = FilterInBailiwick(z, n, m)
  BY NoRecordsRefer DEF LookupResults, IsReferral, Found
<1>2. IsSection(m.ns) /\ r.ns = Keep(m.ns, NsPositions(z, n, m.ns))
  BY <1>1, ResponsesAssumption DEF FilterInBailiwick, IsMessage
<1> DEFINE I == OfType(r.ns, "NS")
<1>3. I # {} /\ I \in SUBSET Nat
  BY <1>2, PositionsInDomain DEF IsReferral, HasNS, OfType, Keep, IsSection
<1>4. I \subseteq Delegations(z, n, m.ns)
  BY <1>2 DEF OfType, Keep, NsPositions
<1>5. First(I) \in I
  <2> HIDE DEF I
  <2> QED BY <1>3, FirstIsLeast
<1>6. DelegationOwner(r.ns) = m.ns[First(I)].owner
  BY <1>2, <1>5 DEF DelegationOwner, OfType, Keep
<1> QED BY <1>2, <1>4, <1>5, <1>6 DEF Delegations, OfType, IsSection, RR

(* A zone strictly below another has more labels.                          *)
LEMMA StrictlyBelow ==
    ASSUME NEW z \in Name, NEW o \in Name, IsSubDomain(z, o), ~EqualFold(o, z)
    PROVE  Narrows(z, o)
BY SubDomainLength, EqualFoldSymmetric DEF Narrows, Name

LEMMA FreshFrame ==
    ASSUME NEW n \in Name
    PROVE  /\ IsFrame(Fresh(n))
           /\ Fresh(n).name = n /\ Fresh(n).zone = Root /\ Fresh(n).hop = 0
           /\ IsSubDomain(Fresh(n).zone, Fresh(n).name)
           /\ Fresh(n).hop <= Len(Fresh(n).zone)
<1>1. Root \in Name /\ Len(Root) = 0
  BY DEF Root, Name
<1> QED BY <1>1, NoRecordsSection, RootEncloses, LimitsAssumption, RootHintsAssumption
        DEF Fresh, IsFrame

LEMMA UnusedFrame == IsFrame(Unused)
<1>1. Root \in Name
  BY DEF Root, Name
<1> QED BY <1>1, FreshFrame DEF Unused

(* Each nameserver of a section is a name.                                 *)
LEMMA UniqueNSTypes ==
    ASSUME NEW s, IsSection(s), HasNS(s)
    PROVE  /\ UniqueNS(s) \in SUBSET Nat
           /\ UniqueNS(s) \subseteq OfType(s, "NS")
           /\ First(UniqueNS(s)) \in OfType(s, "NS")
           /\ \A i \in OfType(s, "NS") : s[i].target \in Name
<1>1. OfType(s, "NS") \in SUBSET Nat /\ UniqueNS(s) \subseteq OfType(s, "NS")
  BY DEF OfType, IsSection, UniqueNS
<1>2. \A i \in OfType(s, "NS") : s[i].target \in Name
  BY DEF OfType, IsSection, RR
<1>3. First(OfType(s, "NS")) \in UniqueNS(s)
  <2>1. /\ First(OfType(s, "NS")) \in OfType(s, "NS")
        /\ \A j \in OfType(s, "NS") : First(OfType(s, "NS")) <= j
    BY <1>1, FirstIsLeast DEF HasNS
  <2> QED BY <2>1 DEF UniqueNS
<1>4. First(UniqueNS(s)) \in UniqueNS(s)
  BY <1>1, <1>3, FirstIsLeast
<1> QED BY <1>1, <1>2, <1>4

-----------------------------------------------------------------------------
LEMMA InitIInv == Init => IInv
<1> SUFFICES ASSUME Init PROVE IInv
  OBVIOUS
<1> USE DEF Init
<1>1. query.name \in Name /\ Root \in Name
  BY QueriesAssumption DEF Root, Name
<1>2. TypeOK
  <2>1. \A d \in 0..MaxGlueDepth : IsFrame(frame[d])
    BY <1>1, FreshFrame DEF Unused
  <2>2. IsMessage(ret.result)
    BY NoRecordsSection DEF Running, NoResult, Found, IsMessage, Rcode
  <2>3. 0 \in 0..MaxGlueDepth /\ budget \in 0..MaxTotalLookups /\ restarts \in 0..MaxCNAMERestarts
    BY LimitsAssumption
  <2> QED BY <2>1, <2>2, <2>3 DEF TypeOK, Running, Pending
<1>3. BudgetKept /\ RestartsLeft /\ Waiting
  BY LimitsAssumption DEF BudgetKept, RestartsLeft, Waiting
<1>4. ZoneEnclosesName /\ HopsWithinLabels
  <2>1. frame[0] = Fresh(query.name)
    BY LimitsAssumption
  <2> QED BY <1>1, <2>1, FreshFrame DEF ZoneEnclosesName, HopsWithinLabels
<1> QED BY <1>2, <1>3, <1>4 DEF IInv

-----------------------------------------------------------------------------
(* Steps that leave the resolutions where they are.                        *)
LEMMA FramesKept ==
    ASSUME IInv, UNCHANGED <<depth, frame>>
    PROVE  Waiting' /\ ZoneEnclosesName' /\ HopsWithinLabels'
BY DEF IInv, Waiting, ZoneEnclosesName, HopsWithinLabels

LEMMA StatesDiffer ==
    /\ Error # Pending
    /\ \A rcode, rrs, ns : Response(rcode, rrs, ns) # Pending
    /\ Error.state = "error" /\ Pending.state = "pending"
    /\ \A rcode, rrs, ns : Response(rcode, rrs, ns).state = "response"
BY DEF Error, Pending, Response

LEMMA RetTypes ==
    /\ Running.state = "running" /\ IsMessage(Running.result)
    /\ Failed.state = "failed" /\ IsMessage(Failed.result)
    /\ \A r : Returned(r).state = "returned" /\ Returned(r).result = r
BY NoRecordsSection DEF Running, Failed, Returned, NoResult, Found, IsMessage, Rcode

(* A lookup takes one from the budget.                                     *)
LEMMA LookupFacts ==
    ASSUME IInv, Lookup
    PROVE  /\ budget' \in 0..MaxTotalLookups
           /\ lookups' \in Nat
           /\ BudgetKept'
           /\ RestartsLeft'
           /\ UNCHANGED <<query, restarts, answer, outcome>>
           /\ depth \in 0..MaxGlueDepth
           /\ frame[depth].hop \in 0..MaxHops
           /\ frame[depth].hop < MaxHops
           /\ frame[depth].name \in Name
           /\ frame[depth].zone \in Name
           /\ IsSubDomain(frame[depth].zone, frame[depth].name)
           /\ frame[depth].hop <= Len(frame[depth].zone)
<1>1. depth \in 0..MaxGlueDepth /\ depth \in 0..depth /\ IsFrame(frame[depth])
  BY LimitsAssumption DEF IInv, TypeOK
<1> QED BY <1>1, LimitsAssumption
        DEF Lookup, IInv, TypeOK, BudgetKept, RestartsLeft, IsFrame,
            ZoneEnclosesName, HopsWithinLabels

LEMMA StayIInv ==
    ASSUME IInv,
           \/ TooManyHops \/ OutOfBudget \/ LookupFails
           \/ \E r \in LookupResults(frame[depth].zone, frame[depth].name, QType) :
                    LookupEnds(r) \/ NoProgress(r) \/ GlueTooDeep(r)
    PROVE  IInv'
<1>1. UNCHANGED <<depth, frame, query, restarts, answer, outcome>>
  BY DEF TooManyHops, OutOfBudget, LookupFails, LookupEnds, NoProgress, GlueTooDeep, Refer, Lookup
<1>2. /\ budget' \in 0..MaxTotalLookups /\ lookups' \in Nat
      /\ BudgetKept' /\ RestartsLeft'
  <2>1. CASE Lookup
    BY <2>1, LookupFacts
  <2>2. CASE TooManyHops \/ OutOfBudget
    BY <2>2 DEF TooManyHops, OutOfBudget, IInv, TypeOK, BudgetKept, RestartsLeft
  <2> QED BY <2>1, <2>2 DEF LookupFails, LookupEnds, NoProgress, GlueTooDeep, Refer
<1>3. ret'.state \in {"running", "failed", "returned"} /\ IsMessage(ret'.result)
  <2>1. CASE ret' = Failed
    BY <2>1, RetTypes
  <2>2. ASSUME NEW r \in LookupResults(frame[depth].zone, frame[depth].name, QType),
               LookupEnds(r)
        PROVE  ret'.state \in {"running", "failed", "returned"} /\ IsMessage(ret'.result)
    BY <2>2, RetTypes, ResultMessage DEF LookupEnds
  <2> QED BY <2>1, <2>2 DEF TooManyHops, OutOfBudget, LookupFails, NoProgress, GlueTooDeep
<1>4. TypeOK'
  BY <1>1, <1>2, <1>3 DEF IInv, TypeOK
<1> QED BY <1>1, <1>2, <1>4, FramesKept DEF IInv

LEMMA FinishIInv ==
    ASSUME IInv, HandleFails \/ HandleNegative \/ HandleComplete \/ TooManyRestarts
    PROVE  IInv'
<1>1. /\ UNCHANGED <<depth, frame, query, budget, lookups, ret>>
      /\ outcome = Pending /\ outcome' # Pending
      /\ outcome'.state \in {"pending", "error", "response"}
      /\ answer' = answer \/ answer' = answer \cup RecordsOf(ret.result.answer)
      /\ restarts' = restarts \/ restarts' = restarts + 1
  BY StatesDiffer DEF HandleFails, HandleNegative, HandleComplete, TooManyRestarts,
                      Restart, Collect, ResolutionReturns
<1>2. restarts' \in 0..MaxCNAMERestarts
  BY <1>1, LimitsAssumption DEF IInv, TypeOK, RestartsLeft
<1>3. \A rr \in answer' : rr \in RR
  BY <1>1 DEF IInv, TypeOK, IsMessage, IsSection, RecordsOf
<1>4. TypeOK'
  BY <1>1, <1>2, <1>3 DEF IInv, TypeOK
<1>5. BudgetKept' /\ RestartsLeft'
  BY <1>1 DEF IInv, BudgetKept, RestartsLeft
<1> QED BY <1>1, <1>4, <1>5, FramesKept DEF IInv

(* A referral followed, at the nesting of the step.                        *)
LEMMA ReferDelegates ==
    ASSUME IInv, NEW r \in LookupResults(frame[depth].zone, frame[depth].name, QType), Refer(r)
    PROVE  Delegates(frame[depth], r.ns)
<1>1. frame[depth].zone \in Name /\ frame[depth].name \in Name
  BY LookupFacts DEF Refer
<1>2. IsSection(r.ns) /\ HasNS(r.ns)
  BY ResultMessage DEF IsMessage, Refer, IsReferral
<1>3. /\ DelegationOwner(r.ns) \in Name
      /\ IsSubDomain(frame[depth].zone, DelegationOwner(r.ns))
      /\ IsSubDomain(DelegationOwner(r.ns), frame[depth].name)
  BY <1>1, ReferralDelegates DEF Refer
<1> QED BY <1>1, <1>2, <1>3, StrictlyBelow DEF Refer, Delegates

(* Where Descend arrives.                                                  *)
LEMMA DescendFrame ==
    ASSUME NEW f, IsFrame(f), f.hop < MaxHops, f.hop <= Len(f.zone),
           NEW ns, Delegates(f, ns), NEW hosts \in SUBSET Name
    PROVE  LET g == Descend(f, ns, hosts)
           IN  /\ IsFrame(g)
               /\ IsSubDomain(g.zone, g.name)
               /\ g.hop <= Len(g.zone)
<1>1. Len(f.zone) + 1 <= Len(DelegationOwner(ns))
  BY DEF Delegates, Narrows, IsFrame, Name
<1>2. f.hop + 1 \in 0..MaxHops
  BY LimitsAssumption DEF IsFrame
<1>3. f.hop + 1 <= Len(DelegationOwner(ns))
  BY <1>1 DEF IsFrame, Delegates, Name
<1> QED BY <1>2, <1>3, NoRecordsSection DEF Descend, Delegates, IsFrame

LEMMA FollowGlueIInv ==
    ASSUME IInv, NEW r \in LookupResults(frame[depth].zone, frame[depth].name, QType),
           FollowGlue(r)
    PROVE  IInv'
<1> DEFINE g == Descend(frame[depth], r.ns, Glued(r))
<1>1. /\ Refer(r) /\ Lookup
      /\ frame' = [frame EXCEPT ![depth] = g]
      /\ UNCHANGED <<depth, ret>>
  BY DEF FollowGlue, Refer
<1>2. Delegates(frame[depth], r.ns)
  BY <1>1, ReferDelegates
<1>3. Glued(r) \in SUBSET Name
  BY <1>2, UniqueNSTypes DEF Glued, GluedHosts, Delegates
<1>4. IsFrame(g) /\ IsSubDomain(g.zone, g.name) /\ g.hop <= Len(g.zone)
  BY <1>1, <1>2, <1>3, LookupFacts, DescendFrame DEF IInv, TypeOK
<1> HIDE DEF g
<1>5. DOMAIN frame = 0..MaxGlueDepth /\ depth \in 0..MaxGlueDepth
  BY DEF IInv, TypeOK
<1>6. TypeOK'
  BY <1>1, <1>4, <1>5, LookupFacts DEF IInv, TypeOK
<1>7. Waiting' /\ ZoneEnclosesName' /\ HopsWithinLabels'
  BY <1>1, <1>4, <1>5, LimitsAssumption DEF IInv, Waiting, ZoneEnclosesName, HopsWithinLabels
<1> QED BY <1>1, <1>6, <1>7, LookupFacts DEF IInv

LEMMA ResolveNSIInv ==
    ASSUME IInv, NEW r \in LookupResults(frame[depth].zone, frame[depth].name, QType),
           ResolveNS(r)
    PROVE  IInv'
<1> DEFINE first == First(UniqueNS(r.ns))
           g == Await(frame[depth], r.ns, UniqueNS(r.ns) \ {first})
           h == Fresh(r.ns[first].target)
<1>1. /\ Refer(r) /\ Lookup
      /\ frame' = [frame EXCEPT ![depth] = g, ![depth + 1] = h]
      /\ depth' = depth + 1 /\ ret' = ret /\ depth < MaxGlueDepth
  BY DEF ResolveNS, Refer
<1>2. Delegates(frame[depth], r.ns)
  BY <1>1, ReferDelegates
<1>3. /\ IsFrame(h) /\ IsSubDomain(h.zone, h.name) /\ h.hop <= Len(h.zone)
  BY <1>2, UniqueNSTypes, FreshFrame DEF Delegates
<1>4. /\ IsFrame(g) /\ Delegates(g, g.referral)
      /\ g.name = frame[depth].name /\ g.zone = frame[depth].zone /\ g.hop = frame[depth].hop
  BY <1>2, UniqueNSTypes DEF IInv, TypeOK, IsFrame, Await, Delegates
<1> HIDE DEF g, h
<1>5. DOMAIN frame = 0..MaxGlueDepth /\ depth \in 0..MaxGlueDepth /\ depth' \in 0..MaxGlueDepth
  BY <1>1, LimitsAssumption DEF IInv, TypeOK
<1>6. /\ DOMAIN frame' = 0..MaxGlueDepth
      /\ frame'[depth] = g /\ frame'[depth'] = h
      /\ \A d \in 0..MaxGlueDepth : d # depth /\ d # depth' => frame'[d] = frame[d]
  BY <1>1, <1>5
<1>7. TypeOK'
  BY <1>1, <1>3, <1>4, <1>5, <1>6, LookupFacts DEF IInv, TypeOK
<1>8. ASSUME NEW d \in 0..depth', d # depth', d # depth
      PROVE  d \in 0..depth /\ d < depth /\ frame'[d] = frame[d]
  <2>1. depth' = depth + 1 /\ depth \in Nat /\ MaxGlueDepth \in Nat
    BY <1>1, <1>5, LimitsAssumption
  <2>2. d \in 0..depth /\ d < depth
    BY <2>1, <1>8
  <2>3. d \in 0..MaxGlueDepth
    BY <2>1, <2>2, <1>5
  <2> QED BY <1>6, <1>8, <2>2, <2>3
<1>9. Waiting'
  <2>1. ASSUME NEW d \in 0..depth', d < depth'
        PROVE  frame'[d].hop < MaxHops /\ Delegates(frame'[d], frame'[d].referral)
    <3>1. CASE d = depth
      BY <1>1, <1>4, <1>6, <3>1, LookupFacts
    <3>2. CASE d # depth
      BY <1>8, <2>1, <3>2 DEF IInv, Waiting
    <3> QED BY <3>1, <3>2
  <2> QED BY <2>1 DEF Waiting, Delegates
<1>10. ZoneEnclosesName' /\ HopsWithinLabels'
  BY <1>1, <1>3, <1>4, <1>6, <1>8, LookupFacts DEF IInv, ZoneEnclosesName, HopsWithinLabels
<1> QED BY <1>1, <1>7, <1>9, <1>10, LookupFacts DEF IInv

-----------------------------------------------------------------------------
(* The caller of a nested resolution waits for it.                         *)
LEMMA CallerWaits ==
    ASSUME IInv, HostReturns
    PROVE  /\ depth \in 1..MaxGlueDepth
           /\ depth - 1 \in 0..MaxGlueDepth
           /\ DOMAIN frame = 0..MaxGlueDepth
           /\ IsFrame(caller) /\ caller.hop < MaxHops
           /\ IsSubDomain(caller.zone, caller.name)
           /\ caller.hop <= Len(caller.zone)
           /\ Delegates(caller, caller.referral)
           /\ frame[depth].name \in Name
           /\ UNCHANGED <<query, budget, lookups, restarts, answer, outcome>>
<1>1. depth \in 0..MaxGlueDepth /\ depth > 0 /\ MaxGlueDepth \in Nat
  BY LimitsAssumption DEF IInv, TypeOK, HostReturns
<1>2. /\ depth \in 1..MaxGlueDepth /\ depth - 1 \in 0..MaxGlueDepth
      /\ depth - 1 \in 0..depth /\ depth - 1 < depth
  BY <1>1
<1> QED BY <1>1, <1>2
        DEF IInv, TypeOK, IsFrame, Waiting, ZoneEnclosesName, HopsWithinLabels, caller, HostReturns

LEMMA UseAddressIInv ==
    ASSUME IInv, UseAddress
    PROVE  IInv'
<1> DEFINE g == Descend(caller, caller.referral, {frame[depth].name})
<1>1. /\ HostReturns
      /\ frame' = [frame EXCEPT ![depth - 1] = g, ![depth] = Unused]
      /\ depth' = depth - 1 /\ ret' = Running
  BY DEF UseAddress
<1>2. IsFrame(g) /\ IsSubDomain(g.zone, g.name) /\ g.hop <= Len(g.zone)
  BY <1>1, CallerWaits, DescendFrame
<1>3. IsFrame(Unused)
  BY UnusedFrame
<1> HIDE DEF g
<1>4. /\ DOMAIN frame' = 0..MaxGlueDepth
      /\ frame'[depth'] = g /\ frame'[depth] = Unused
      /\ \A d \in 0..MaxGlueDepth : d # depth /\ d # depth' => frame'[d] = frame[d]
  BY <1>1, CallerWaits
<1>5. TypeOK'
  BY <1>1, <1>2, <1>3, <1>4, CallerWaits, RetTypes DEF IInv, TypeOK
<1>6. ASSUME NEW d \in 0..depth', d # depth'
      PROVE  d \in 0..depth /\ d < depth /\ frame'[d] = frame[d]
  <2>1. depth' = depth - 1 /\ depth \in 1..MaxGlueDepth /\ MaxGlueDepth \in Nat
    BY <1>1, CallerWaits, LimitsAssumption
  <2>2. d \in 0..depth /\ d < depth /\ d \in 0..MaxGlueDepth
    BY <2>1, <1>6
  <2> QED BY <1>4, <1>6, <2>2
<1>7. Waiting'
  BY <1>6 DEF IInv, Waiting, Delegates
<1>8. ZoneEnclosesName' /\ HopsWithinLabels'
  BY <1>2, <1>4, <1>6 DEF IInv, ZoneEnclosesName, HopsWithinLabels
<1>9. BudgetKept' /\ RestartsLeft'
  BY <1>1, CallerWaits DEF IInv, BudgetKept, RestartsLeft
<1> QED BY <1>5, <1>7, <1>8, <1>9 DEF IInv

LEMMA TryNextHostIInv ==
    ASSUME IInv, TryNextHost
    PROVE  IInv'
<1> DEFINE next == First(caller.untried)
           g == Await(caller, caller.referral, caller.untried \ {next})
           h == Fresh(caller.referral[next].target)
<1>1. /\ HostReturns
      /\ frame' = [frame EXCEPT ![depth - 1] = g, ![depth] = h]
      /\ depth' = depth /\ ret' = Running /\ caller.untried # {}
  BY DEF TryNextHost
<1>2. caller.untried \subseteq OfType(caller.referral, "NS") /\ IsSection(caller.referral)
  BY <1>1, CallerWaits DEF IsFrame
<1>3. next \in OfType(caller.referral, "NS")
  <2>1. caller.untried \in SUBSET Nat
    BY <1>2 DEF OfType, IsSection
  <2> QED BY <1>1, <1>2, <2>1, FirstIsLeast
<1>4. /\ IsFrame(h) /\ IsSubDomain(h.zone, h.name) /\ h.hop <= Len(h.zone)
  <2>1. caller.referral[next].target \in Name
    BY <1>2, <1>3 DEF OfType, IsSection, RR
  <2> QED BY <2>1, FreshFrame
<1>5. /\ IsFrame(g) /\ Delegates(g, g.referral)
      /\ g.name = caller.name /\ g.zone = caller.zone /\ g.hop = caller.hop
  BY <1>1, <1>2, CallerWaits DEF IsFrame, Await, Delegates
<1> HIDE DEF g, h
<1>6. /\ DOMAIN frame' = 0..MaxGlueDepth
      /\ frame'[depth - 1] = g /\ frame'[depth] = h
      /\ \A d \in 0..MaxGlueDepth : d # depth /\ d # depth - 1 => frame'[d] = frame[d]
  BY <1>1, CallerWaits
<1>7. TypeOK'
  BY <1>1, <1>4, <1>5, <1>6, CallerWaits, RetTypes DEF IInv, TypeOK
<1>8. ASSUME NEW d \in 0..depth, d # depth, d # depth - 1
      PROVE  d < depth /\ frame'[d] = frame[d]
  <2>1. depth \in 1..MaxGlueDepth /\ MaxGlueDepth \in Nat
    BY <1>1, CallerWaits, LimitsAssumption
  <2>2. d < depth /\ d \in 0..MaxGlueDepth
    BY <2>1, <1>8
  <2> QED BY <1>6, <1>8, <2>2
<1>9. Waiting'
  <2>1. ASSUME NEW d \in 0..depth', d < depth'
        PROVE  frame'[d].hop < MaxHops /\ Delegates(frame'[d], frame'[d].referral)
    <3>1. CASE d = depth - 1
      BY <1>1, <1>5, <1>6, <3>1, CallerWaits
    <3>2. CASE d # depth - 1
      <4>1. d \in 0..depth /\ d < depth /\ d # depth
        BY <1>1, <2>1
      <4>2. frame'[d] = frame[d]
        BY <1>8, <3>2, <4>1
      <4> QED BY <4>1, <4>2 DEF IInv, Waiting
    <3> QED BY <3>1, <3>2
  <2> QED BY <2>1 DEF Waiting, Delegates
<1>10. ZoneEnclosesName' /\ HopsWithinLabels'
  BY <1>1, <1>4, <1>5, <1>6, <1>8, CallerWaits DEF IInv, ZoneEnclosesName, HopsWithinLabels
<1>11. BudgetKept' /\ RestartsLeft'
  BY <1>1, CallerWaits DEF IInv, BudgetKept, RestartsLeft
<1> QED BY <1>7, <1>9, <1>10, <1>11 DEF IInv

LEMMA NoHostResolvedIInv ==
    ASSUME IInv, NoHostResolved
    PROVE  IInv'
<1>1. /\ HostReturns
      /\ frame' = [frame EXCEPT ![depth] = Unused]
      /\ depth' = depth - 1 /\ ret' = Failed
  BY DEF NoHostResolved
<1>2. IsFrame(Unused)
  BY UnusedFrame
<1>3. /\ DOMAIN frame' = 0..MaxGlueDepth
      /\ frame'[depth] = Unused
      /\ \A d \in 0..MaxGlueDepth : d # depth => frame'[d] = frame[d]
  BY <1>1, CallerWaits
<1>4. TypeOK'
  BY <1>1, <1>2, <1>3, CallerWaits, RetTypes DEF IInv, TypeOK
<1>5. ASSUME NEW d \in 0..depth'
      PROVE  d \in 0..depth /\ d < depth /\ frame'[d] = frame[d]
  <2>1. depth' = depth - 1 /\ depth \in 1..MaxGlueDepth /\ MaxGlueDepth \in Nat
    BY <1>1, CallerWaits, LimitsAssumption
  <2>2. d \in 0..depth /\ d < depth /\ d \in 0..MaxGlueDepth
    BY <2>1, <1>5
  <2> QED BY <1>3, <2>2
<1>6. Waiting' /\ ZoneEnclosesName' /\ HopsWithinLabels'
  BY <1>5 DEF IInv, Waiting, Delegates, ZoneEnclosesName, HopsWithinLabels
<1>7. BudgetKept' /\ RestartsLeft'
  BY <1>1, CallerWaits DEF IInv, BudgetKept, RestartsLeft
<1> QED BY <1>4, <1>6, <1>7 DEF IInv

LEMMA HandleRestartIInv ==
    ASSUME IInv, HandleRestart
    PROVE  IInv'
<1>1. /\ depth = 0 /\ depth' = 0 /\ ret' = Running
      /\ restarts' = restarts + 1 /\ restarts' < MaxCNAMERestarts
      /\ answer' = answer \cup RecordsOf(ret.result.answer)
      /\ UNCHANGED <<query, budget, lookups, outcome>>
  BY DEF HandleRestart, Restart, Collect, ResolutionReturns
<1>2. PICK target \in Targets : frame' = [frame EXCEPT ![0] = Fresh(target)]
  BY DEF HandleRestart
<1>3. target \in Name
  <2>1. target \in {frame[0].name} \cup
                    {ret.result.answer[i].target : i \in OfType(ret.result.answer, "CNAME")}
    BY DEF Targets, UnresolvedCNAMETarget, Orbit
  <2>2. frame[0].name \in Name
    BY <1>1 DEF IInv, TypeOK, IsFrame
  <2> QED BY <2>1, <2>2 DEF IInv, TypeOK, IsMessage, IsSection, OfType, RR
<1>4. /\ DOMAIN frame' = 0..MaxGlueDepth
      /\ frame'[0] = Fresh(target)
      /\ \A d \in 0..MaxGlueDepth : d # 0 => frame'[d] = frame[d]
  BY <1>1, <1>2 DEF IInv, TypeOK
<1>5. restarts' \in 0..MaxCNAMERestarts
  BY <1>1, LimitsAssumption DEF IInv, TypeOK
<1>6. \A rr \in answer' : rr \in RR
  BY <1>1 DEF IInv, TypeOK, IsMessage, IsSection, RecordsOf
<1>7. TypeOK'
  BY <1>1, <1>3, <1>4, <1>5, <1>6, FreshFrame, RetTypes DEF IInv, TypeOK
<1>8. Waiting' /\ ZoneEnclosesName' /\ HopsWithinLabels'
  BY <1>1, <1>3, <1>4, FreshFrame DEF Waiting, ZoneEnclosesName, HopsWithinLabels
<1>9. BudgetKept' /\ RestartsLeft'
  BY <1>1 DEF IInv, BudgetKept, RestartsLeft
<1> QED BY <1>7, <1>8, <1>9 DEF IInv

LEMMA NextIInv == IInv /\ [Next]_vars => IInv'
<1> SUFFICES ASSUME IInv, [Next]_vars PROVE IInv'
  OBVIOUS
<1>1. CASE UNCHANGED vars
  BY <1>1 DEF vars, IInv, TypeOK, BudgetKept, RestartsLeft, Waiting,
              ZoneEnclosesName, HopsWithinLabels
<1>2. CASE TooManyHops \/ OutOfBudget
  BY <1>2, StayIInv
<1>3. CASE LookupReturns
  BY <1>3, StayIInv, FollowGlueIInv, ResolveNSIInv DEF LookupReturns
<1>4. CASE UseAddress \/ TryNextHost \/ NoHostResolved
  BY <1>4, UseAddressIInv, TryNextHostIInv, NoHostResolvedIInv
<1>5. CASE HandleFails \/ HandleNegative \/ HandleComplete \/ TooManyRestarts
  BY <1>5, FinishIInv
<1>6. CASE HandleRestart
  BY <1>6, HandleRestartIInv
<1> QED BY <1>1, <1>2, <1>3, <1>4, <1>5, <1>6 DEF Next

LEMMA Invariance == Spec => []IInv
BY InitIInv, NextIInv, PTL DEF Spec

-----------------------------------------------------------------------------
(* The state of a call of Handle stays typed; in particular it nests no    *)
(* deeper than maxGlueDepth and restarts at most maxCNAMERestarts times.   *)
THEOREM HandleTypeOK == Spec => []TypeOK
<1>1. IInv => TypeOK
  BY DEF IInv
<1> QED BY Invariance, <1>1, PTL

(* However nested resolutions, hops and restarts interact, one call of     *)
(* Handle makes at most maxTotalLookups lookups.                           *)
THEOREM HandleLookupsBounded == Spec => []LookupsBounded
<1>1. IInv => LookupsBounded
  BY LimitsAssumption DEF IInv, TypeOK, BudgetKept, LookupsBounded
<1> QED BY Invariance, <1>1, PTL

(* Every lookup is made for a zone that encloses the name looked up, as    *)
(* Helper.Lookup requires of its callers.                                  *)
THEOREM HandleKeepsZonePrecondition == Spec => []ZoneEnclosesName
<1>1. IInv => ZoneEnclosesName
  BY DEF IInv
<1> QED BY Invariance, <1>1, PTL

(* No referral loop forms: hops never outnumber the labels of the zone     *)
(* reached, whatever referrals servers send.                               *)
THEOREM HandleHopsWithinLabels == Spec => []HopsWithinLabels
<1>1. IInv => HopsWithinLabels
  BY DEF IInv
<1> QED BY Invariance, <1>1, PTL

-----------------------------------------------------------------------------
LEMMA NextNarrows == IInv /\ [Next]_vars => [HopNarrows]_vars
<1> SUFFICES ASSUME IInv, Next, NEW d \in 0..depth, d <= depth', frame'[d].hop > frame[d].hop
             PROVE  Narrows(frame[d].zone, frame'[d].zone)
  BY DEF HopNarrows
<1>1. /\ d \in 0..MaxGlueDepth /\ depth \in 0..MaxGlueDepth
      /\ DOMAIN frame = 0..MaxGlueDepth
      /\ frame[d].hop \in Nat
  BY LimitsAssumption DEF IInv, TypeOK, IsFrame
<1>2. frame' = frame => FALSE
  <2> SUFFICES ASSUME frame' = frame PROVE FALSE
    OBVIOUS
  <2>1. frame'[d].hop = frame[d].hop
    OBVIOUS
  <2> QED BY <1>1, <2>1
<1>3. ASSUME NEW n, frame'[d] = Fresh(n) PROVE FALSE
  BY <1>1, <1>3 DEF Fresh
<1>4. ASSUME NEW ns, NEW I, frame'[d] = Await(frame[d], ns, I) PROVE FALSE
  BY <1>1, <1>4 DEF Await
<1>5. frame'[d] # frame[d]
  BY <1>1
<1>6. ASSUME NEW r \in LookupResults(frame[depth].zone, frame[depth].name, QType), FollowGlue(r)
      PROVE  Narrows(frame[d].zone, frame'[d].zone)
  <2>1. Refer(r) /\ frame' = [frame EXCEPT ![depth] = Descend(frame[depth], r.ns, Glued(r))]
    BY <1>6 DEF FollowGlue
  <2>2. d = depth /\ frame'[d].zone = DelegationOwner(r.ns)
    BY <1>1, <1>5, <2>1 DEF Descend
  <2> QED BY <2>1, <2>2, ReferDelegates DEF Delegates
<1>7. ASSUME NEW r \in LookupResults(frame[depth].zone, frame[depth].name, QType), ResolveNS(r)
      PROVE  FALSE
  <2>1. PICK n, ns, I : frame' = [frame EXCEPT ![depth] = Await(frame[depth], ns, I),
                                               ![depth + 1] = Fresh(n)]
    BY <1>7 DEF ResolveNS
  <2>2. (frame'[d] = Await(frame[depth], ns, I) /\ d = depth) \/ frame'[d] = Fresh(n)
    BY <1>1, <1>5, <2>1
  <2> QED BY <1>3, <1>4, <2>2
<1>8. CASE UseAddress
  <2>1. /\ HostReturns /\ depth' = depth - 1
        /\ frame' = [frame EXCEPT
                        ![depth - 1] = Descend(caller, caller.referral, {frame[depth].name}),
                        ![depth] = Unused]
    BY <1>8 DEF UseAddress
  <2>2. depth \in Nat /\ d \in Nat
    BY <1>1
  <2>3. d # depth
    BY <2>1, <2>2
  <2>4. d = depth - 1
    BY <1>1, <1>5, <2>1, <2>3
  <2>5. frame'[d].zone = DelegationOwner(caller.referral) /\ frame[d] = caller
    BY <1>1, <2>1, <2>2, <2>4 DEF Descend, caller
  <2> QED BY <2>1, <2>5, CallerWaits DEF Delegates
<1>9. CASE TryNextHost
  <2>1. PICK n, I : frame' = [frame EXCEPT
                        ![depth - 1] = Await(caller, caller.referral, I),
                        ![depth] = Fresh(n)]
    BY <1>9 DEF TryNextHost
  <2>2. \/ frame'[d] = Await(caller, caller.referral, I) /\ d = depth - 1
        \/ frame'[d] = Fresh(n)
    BY <1>1, <1>5, <2>1
  <2> QED BY <1>3, <1>4, <2>2 DEF caller
<1>10. CASE NoHostResolved
  BY <1>1, <1>3, <1>5, <1>10 DEF NoHostResolved, Unused
<1>11. CASE HandleRestart
  <2>1. PICK n : frame' = [frame EXCEPT ![0] = Fresh(n)]
    BY <1>11 DEF HandleRestart
  <2> QED BY <1>1, <1>3, <1>5, <2>1
<1>12. CASE LookupReturns
  <2>1. PICK r \in LookupResults(frame[depth].zone, frame[depth].name, QType) :
            FollowGlue(r) \/ ResolveNS(r)
    BY <1>2, <1>12 DEF LookupReturns, LookupFails, LookupEnds, NoProgress, GlueTooDeep
  <2> QED BY <1>6, <1>7, <2>1
<1>13. CASE \/ TooManyHops \/ OutOfBudget \/ HandleFails \/ HandleNegative
            \/ HandleComplete \/ TooManyRestarts
  BY <1>2, <1>13 DEF TooManyHops, OutOfBudget, HandleFails, HandleNegative,
                     HandleComplete, TooManyRestarts
<1> QED BY <1>8, <1>9, <1>10, <1>11, <1>12, <1>13 DEF Next

(* Each hop of each resolution, nested ones included, trusts a zone        *)
(* strictly below the one it came from.                                    *)
THEOREM HandleZonesNarrow == Spec => ZonesNarrow
BY Invariance, NextNarrows, PTL DEF Spec, ZonesNarrow

-----------------------------------------------------------------------------
(* Every step counts.                                                      *)
(* The hosts still to try are finitely many.                               *)
LEMMA HostsToTryType ==
    ASSUME IInv
    PROVE  /\ HostsToTry \in Nat
           /\ depth > 0 => IsFiniteSet(caller.untried)
<1>1. CASE depth = 0
  BY <1>1 DEF HostsToTry
<1>2. CASE depth # 0
  <2>1. depth - 1 \in 0..MaxGlueDepth
    BY <1>2, LimitsAssumption DEF IInv, TypeOK
  <2>2. IsSection(caller.referral) /\ caller.untried \subseteq DOMAIN caller.referral
    BY <2>1 DEF IInv, TypeOK, IsFrame, OfType, caller
  <2>3. IsFiniteSet(caller.untried)
    BY <2>2, FS_Subset DEF IsSection
  <2> QED BY <1>2, <2>3, FS_CardinalityType DEF HostsToTry, caller
<1> QED BY <1>1, <1>2

LEMMA RemainingType ==
    ASSUME IInv
    PROVE  Remaining \in Measures(6)
<1>1. /\ AsLongAs(outcome = Pending) \in Nat
      /\ AsLongAs(ret = Running) \in Nat
      /\ MaxCNAMERestarts - restarts \in Nat /\ budget \in Nat /\ depth \in Nat
  BY LimitsAssumption DEF IInv, TypeOK, AsLongAs
<1> QED BY <1>1, HostsToTryType DEF Remaining, Measures

LEMMA NextCounts == IInv /\ Next => Below(Remaining', Remaining)
<1> SUFFICES ASSUME IInv, Next PROVE Below(Remaining', Remaining)
  OBVIOUS
<1>1. /\ MaxCNAMERestarts \in Nat /\ restarts \in Nat /\ budget \in Nat /\ depth \in Nat
      /\ restarts' \in Nat /\ budget' \in Nat /\ depth' \in Nat
  BY NextIInv, LimitsAssumption DEF IInv, TypeOK
<1>2. Running # Failed /\ \A r : Running # Returned(r)
  BY RetTypes
<1>3. CASE TooManyHops \/ OutOfBudget
  <2>1. /\ UNCHANGED <<outcome, restarts, budget, depth, frame>>
        /\ ret = Running /\ ret' = Failed
    BY <1>3 DEF TooManyHops, OutOfBudget, Looping
  <2>2. HostsToTry' = HostsToTry
    BY <2>1 DEF HostsToTry
  <2>3. AsLongAs(ret = Running)' < AsLongAs(ret = Running)
    BY <1>2, <2>1 DEF AsLongAs
  <2> QED BY <2>1, <2>2, <2>3, SixBelow DEF Remaining
<1>4. CASE LookupReturns
  <2>1. UNCHANGED <<outcome, restarts>> /\ budget' < budget
    <3>1. Lookup
      BY <1>4 DEF LookupReturns, LookupFails, LookupEnds, NoProgress, FollowGlue,
                  GlueTooDeep, ResolveNS, Refer
    <3> QED BY <1>1, <3>1 DEF Lookup
  <2> QED BY <2>1, SixBelow DEF Remaining
<1>5. CASE UseAddress \/ NoHostResolved
  <2>1. UNCHANGED <<outcome, restarts, budget>> /\ depth' < depth
    BY <1>1, <1>5 DEF UseAddress, NoHostResolved, HostReturns
  <2> QED BY <2>1, SixBelow DEF Remaining
<1>6. CASE TryNextHost
  <2> DEFINE next == First(caller.untried)
  <2>1. /\ HostReturns /\ caller.untried # {}
        /\ frame' = [frame EXCEPT
                        ![depth - 1] = Await(caller, caller.referral, caller.untried \ {next}),
                        ![depth] = Fresh(caller.referral[next].target)]
        /\ UNCHANGED <<outcome, restarts, budget, depth>>
    BY <1>6 DEF TryNextHost, HostReturns
  <2>2. caller.untried \in SUBSET Nat /\ next \in caller.untried
    <3>1. caller.untried \in SUBSET Nat
      BY <2>1, CallerWaits DEF IsFrame, IsSection, OfType
    <3> QED BY <2>1, <3>1, FirstIsLeast
  <2>3. caller'.untried = caller.untried \ {next}
    <3> DEFINE w == Await(caller, caller.referral, caller.untried \ {next})
    <3>1. w.untried = caller.untried \ {next}
      BY DEF Await
    <3> HIDE DEF w, next
    <3>2. /\ depth - 1 \in DOMAIN frame /\ depth - 1 # depth /\ depth' = depth
          /\ frame' = [frame EXCEPT ![depth - 1] = w, ![depth] = frame'[depth]]
      <4>1. depth - 1 \in DOMAIN frame /\ depth \in DOMAIN frame /\ depth - 1 # depth
        BY <2>1, CallerWaits
      <4> QED BY <2>1, <4>1 DEF w
    <3>3. caller' = w
      BY <3>2 DEF caller
    <3> QED BY <3>1, <3>3
  <2>4. depth > 0 /\ IsFiniteSet(caller.untried)
    BY <2>1, HostsToTryType DEF HostReturns
  <2> HIDE DEF next
  <2>5. /\ Cardinality(caller.untried \ {next}) = Cardinality(caller.untried) - 1
        /\ Cardinality(caller.untried) \in Nat
    BY <2>2, <2>4, FS_RemoveElement, FS_CardinalityType
  <2>6. HostsToTry' < HostsToTry
    <3>1. HostsToTry = Cardinality(caller.untried)
      BY <1>1, <2>4 DEF HostsToTry, caller
    <3>2. HostsToTry' = Cardinality(caller'.untried)
      BY <1>1, <2>1, <2>4 DEF HostsToTry, caller
    <3> QED BY <2>3, <2>5, <3>1, <3>2
  <2> QED BY <2>1, <2>6, SixBelow DEF Remaining
<1>7. CASE HandleFails \/ HandleNegative \/ HandleComplete \/ TooManyRestarts
  <2>1. outcome = Pending /\ outcome' # Pending
    BY <1>7, StatesDiffer DEF HandleFails, HandleNegative, HandleComplete, TooManyRestarts,
                              Restart, Collect, ResolutionReturns
  <2>2. AsLongAs(outcome = Pending)' < AsLongAs(outcome = Pending)
    BY <2>1 DEF AsLongAs
  <2> QED BY <2>2, SixBelow DEF Remaining
<1>8. CASE HandleRestart
  <2>1. outcome' = outcome /\ restarts' = restarts + 1
    BY <1>8 DEF HandleRestart, Restart
  <2>2. MaxCNAMERestarts - restarts' < MaxCNAMERestarts - restarts
    BY <1>1, <2>1
  <2> QED BY <2>1, <2>2, SixBelow DEF Remaining
<1> QED BY <1>3, <1>4, <1>5, <1>6, <1>7, <1>8 DEF Next

(* Whatever servers answer and whatever the limits are, each step of a     *)
(* call of Handle lowers its measure, which by BelowWellFounded no call    *)
(* can do for ever.                                                        *)
THEOREM HandleRunsDown == Spec => EveryStepCounts
<1>1. IInv /\ [Next]_vars => [Remaining' \in Measures(6) /\ Below(Remaining', Remaining)]_vars
  <2>1. IInv' => (Remaining \in Measures(6))'
    BY RemainingType, PTL
  <2> QED BY <2>1, NextIInv, NextCounts
<1> QED BY <1>1, Invariance, PTL DEF Spec, EveryStepCounts

-----------------------------------------------------------------------------
(* The answer is a chain.  Follows(s, n): in each set that has n and is    *)
(* closed under the CNAMEs of s, the records of s are owned.               *)
Follows(s, n) ==
    \A Names : n \in Names /\ LeadsOn(RecordsOf(s), Names) => Owned(RecordsOf(s), Names)

(* What a resolution has returned follows from its name; what Handle has   *)
(* collected follows from the name asked for, and leads to the name it now *)
(* resolves.                                                               *)
RetFollows == ret.state = "returned" => Follows(ret.result.answer, frame[depth].name)

CollectedFollows ==
    outcome = Pending =>
        \A Names : query.name \in Names /\ LeadsOn(answer, Names)
                    => frame[0].name \in Names /\ Owned(answer, Names)

ResponseFollows ==
    outcome.state = "response" =>
        \A Names : query.name \in Names /\ LeadsOn(outcome.answer, Names)
                    => Owned(outcome.answer, Names)

ChainInv == RetFollows /\ CollectedFollows /\ ResponseFollows

LEMMA NothingFollows == \A n : Follows(NoRecords, n)
BY NoRecordsSection DEF Follows, Owned, RecordsOf

(* The records the filter keeps of an answer follow from the name asked    *)
(* for: every name of the chain is in every such set.                      *)
LEMMA KeptAnswerFollows ==
    ASSUME NEW z, NEW n, NEW s, IsSection(s)
    PROVE  Follows(Keep(s, AnswerPositions(z, n, s)), n)
<1> DEFINE Chain == ChainNames(z, n, s)
           step == NextInChain(s, Chain)
           reached == Orbit(n, step, Chain)
           kept == Keep(s, AnswerPositions(z, n, s))
<1> SUFFICES ASSUME NEW Names, n \in Names, LeadsOn(RecordsOf(kept), Names)
             PROVE  Owned(RecordsOf(kept), Names)
  BY DEF Follows
<1> DEFINE S == {m \in Chain : m \in reached /\ m \in Names}
<1>1. ASSUME NEW m \in reached, NEW i \in At(s, m)
      PROVE  s[i] \in RecordsOf(kept) /\ EqualFold(s[i].owner, m)
  BY <1>1 DEF AnswerPositions, RecordsOf, Keep, At
<1>2. n \in Chain => n \in S
  BY OrbitStart
<1>3. ASSUME NEW k \in S \cap DOMAIN step, step[k] \in Chain
      PROVE  step[k] \in S
  <2> DEFINE C == CNAMEsAt(s, k)
  <2>1. k \in reached /\ k \in Names /\ C # {} /\ step[k] = s[First(C)].target
    BY DEF NextInChain
  <2>2. C \in SUBSET Nat
    BY DEF CNAMEsAt, At, IsSection
  <2>3. First(C) \in C
    <3> HIDE DEF C
    <3> QED BY <2>1, <2>2, FirstIsLeast
  <2>4. First(C) \in At(s, k) /\ s[First(C)].type = "CNAME"
    BY <2>3 DEF CNAMEsAt, OfType
  <2> HIDE DEF C
  <2>5. s[First(C)] \in RecordsOf(kept) /\ EqualFold(s[First(C)].owner, k)
    BY <1>1, <2>1, <2>4
  <2>6. step[k] \in Names
    BY <2>1, <2>4, <2>5 DEF LeadsOn
  <2>7. step[k] \in reached
    BY <1>3, <2>1, OrbitStep
  <2> QED BY <1>3, <2>6, <2>7
<1>4. reached \subseteq S
  <2>1. S \in SUBSET Chain
    OBVIOUS
  <2> HIDE DEF S, Chain, step
  <2> QED BY <1>2, <1>3, <2>1, OrbitLeast
<1>5. ASSUME NEW rr \in RecordsOf(kept)
      PROVE  \E m \in Names : EqualFold(rr.owner, m)
  <2>1. PICK i \in AnswerPositions(z, n, s) : rr = s[i]
    BY DEF RecordsOf, Keep
  <2>2. PICK m \in reached : i \in At(s, m)
    BY <2>1 DEF AnswerPositions
  <2> QED BY <1>1, <1>4, <2>1, <2>2
<1> QED BY <1>5 DEF Owned

(* So does everything else Lookup may return: the cache holds answers, the *)
(* NS records of the name, with a SOA at most, and its addresses.          *)
LEMMA CachedAnswerFollows ==
    ASSUME NEW n \in Name, NEW t, NEW s \in CachedRecords(n, t)
    PROVE  Follows(s, n)
<1>1. CASE s \in CachedAnswers(n, t)
  BY <1>1, ResponsesAssumption, KeptAnswerFollows DEF CachedAnswers, IsMessage
<1>2. CASE s \in CachedGlue(n, t)
  <2>1. \A i \in DOMAIN s : s[i].owner = n
    BY <1>2 DEF CachedGlue, Keep
  <2> QED BY <2>1, EqualFoldReflexive DEF Follows, Owned, RecordsOf
<1>3. CASE s \in CachedDelegations(n)
  <2>1. \E z \in Zones(n), r \in Responses :
            /\ s = Keep(r.ns, NsPositions(z, n, r.ns))
            /\ DelegatedZone(z, n, r.ns) = n
    BY <1>3 DEF CachedDelegations
  <2>2. \A i \in DOMAIN s : s[i].type = "SOA" \/ EqualFold(s[i].owner, n)
    BY <2>1 DEF Keep, NsPositions, OfType
  <2> QED BY <2>2 DEF Follows, Owned, RecordsOf
<1> QED BY <1>1, <1>2, <1>3 DEF CachedRecords

LEMMA ResultFollows ==
    ASSUME NEW z, NEW n \in Name, NEW t, NEW r \in LookupResults(z, n, t)
    PROVE  Follows(r.answer, n)
<1>1. ASSUME NEW m \in Responses, r = FilterInBailiwick(z, n, m)
      PROVE  Follows(r.answer, n)
  BY <1>1, ResponsesAssumption, KeptAnswerFollows DEF FilterInBailiwick, IsMessage
<1>2. ASSUME NEW s \in CachedRecords(n, t), r = Found("NOERROR", s)
      PROVE  Follows(r.answer, n)
  BY <1>2, CachedAnswerFollows DEF Found
<1>3. ASSUME NEW rcode, r = Found(rcode, NoRecords)
      PROVE  Follows(r.answer, n)
  BY <1>3, NothingFollows DEF Found
<1> QED BY <1>1, <1>2, <1>3 DEF LookupResults

(* The name a restart is for lies on the way from the name resolved.       *)
LEMMA TargetsFollow ==
    ASSUME NEW s, IsSection(s), NEW n, NEW t,
           NEW Names, n \in Names, LeadsOn(RecordsOf(s), Names)
    PROVE  UnresolvedCNAMETarget(s, n, t) \subseteq Names
<1> DEFINE All == {n} \cup {s[i].target : i \in OfType(s, "CNAME")}
           step == ContinuesAt(s, t, All)
           S == All \cap Names
<1>1. ASSUME NEW k \in S \cap DOMAIN step, step[k] \in All
      PROVE  step[k] \in S
  <2> DEFINE C == CNAMEsAt(s, k)
  <2>1. k \in Names /\ C # {} /\ step[k] = s[Last(C)].target
    BY DEF ContinuesAt
  <2>2. C \in SUBSET Nat /\ IsFiniteSet(C)
    BY FS_Subset DEF CNAMEsAt, At, IsSection
  <2>3. Last(C) \in C
    <3> HIDE DEF C
    <3> QED BY <2>1, <2>2, LastIsGreatest
  <2>4. /\ s[Last(C)] \in RecordsOf(s) /\ s[Last(C)].type = "CNAME"
        /\ EqualFold(s[Last(C)].owner, k)
    BY <2>3 DEF CNAMEsAt, At, OfType, RecordsOf
  <2> HIDE DEF C
  <2>5. step[k] \in Names
    BY <2>1, <2>4 DEF LeadsOn
  <2> QED BY <1>1, <2>5
<1>2. Orbit(n, step, All) \subseteq S
  <2>1. S \in SUBSET All /\ n \in S
    OBVIOUS
  <2> HIDE DEF S, All, step
  <2> QED BY <1>1, <2>1, OrbitLeast
<1> QED BY <1>2 DEF UnresolvedCNAMETarget

-----------------------------------------------------------------------------
LEMMA InitChainInv == Init => ChainInv
<1> SUFFICES ASSUME Init PROVE ChainInv
  OBVIOUS
<1>1. RetFollows
  BY DEF Init, RetFollows, Running
<1>2. CollectedFollows
  <2>1. frame[0].name = query.name
    BY LimitsAssumption DEF Init, Fresh
  <2> QED BY <2>1 DEF CollectedFollows, Init, Owned
<1>3. ResponseFollows
  BY DEF Init, ResponseFollows, Pending
<1> QED BY <1>1, <1>2, <1>3 DEF ChainInv

(* A step of resolveIterative leaves alone what is collected, and the name *)
(* of the outermost resolution.                                            *)
LEMMA NothingCollected ==
    ASSUME ChainInv, UNCHANGED <<query, answer, outcome>>, frame'[0].name = frame[0].name
    PROVE  CollectedFollows' /\ ResponseFollows'
BY DEF ChainInv, CollectedFollows, ResponseFollows

LEMMA WalkChainInv ==
    ASSUME IInv, ChainInv, TooManyHops \/ OutOfBudget \/ LookupReturns
    PROVE  ChainInv'
<1> DEFINE Results == LookupResults(frame[depth].zone, frame[depth].name, QType)
<1>1. /\ ret = Running /\ outcome = Pending
      /\ UNCHANGED <<query, answer, outcome>>
  BY DEF TooManyHops, OutOfBudget, LookupReturns, LookupFails, LookupEnds, NoProgress,
         FollowGlue, GlueTooDeep, ResolveNS, Refer, Lookup, Looping
<1>2. /\ depth \in 0..MaxGlueDepth /\ DOMAIN frame = 0..MaxGlueDepth
      /\ frame[depth].name \in Name
  BY DEF IInv, TypeOK, IsFrame
<1>3. frame'[0].name = frame[0].name
  <2>1. CASE UNCHANGED frame
    BY <2>1
  <2>2. ASSUME NEW r \in Results, FollowGlue(r)
        PROVE  frame'[0].name = frame[0].name
    BY <1>2, <2>2 DEF FollowGlue, Descend
  <2>3. ASSUME NEW r \in Results, ResolveNS(r)
        PROVE  frame'[0].name = frame[0].name
    <3>1. PICK n, I : frame' = [frame EXCEPT ![depth] = Await(frame[depth], r.ns, I),
                                             ![depth + 1] = Fresh(n)]
      BY <2>3 DEF ResolveNS
    <3>2. depth + 1 # 0 /\ 0 \in DOMAIN frame
      BY <1>2, LimitsAssumption
    <3> QED BY <1>2, <3>1, <3>2 DEF Await
  <2> QED BY <2>1, <2>2, <2>3
          DEF TooManyHops, OutOfBudget, LookupReturns, LookupFails, LookupEnds, NoProgress,
              GlueTooDeep
<1>4. RetFollows'
  <2>1. CASE ret' = Running \/ ret' = Failed
    BY <2>1, RetTypes DEF RetFollows
  <2>2. ASSUME NEW r \in Results, LookupEnds(r)
        PROVE  RetFollows'
    <3>1. ret' = Returned(r) /\ UNCHANGED <<depth, frame>>
      BY <2>2 DEF LookupEnds
    <3>2. Follows(r.answer, frame[depth].name)
      BY <1>2, ResultFollows
    <3> QED BY <3>1, <3>2, RetTypes DEF RetFollows
  <2> QED BY <1>1, <2>1, <2>2
          DEF TooManyHops, OutOfBudget, LookupReturns, LookupFails, NoProgress, FollowGlue,
              GlueTooDeep, ResolveNS
<1> QED BY <1>1, <1>3, <1>4, NothingCollected DEF ChainInv

LEMMA HostChainInv ==
    ASSUME IInv, ChainInv, UseAddress \/ TryNextHost \/ NoHostResolved
    PROVE  ChainInv'
<1>1. /\ HostReturns
      /\ UNCHANGED <<query, answer, outcome>>
      /\ ret' = Running \/ ret' = Failed
  BY DEF UseAddress, TryNextHost, NoHostResolved, HostReturns
<1>2. /\ depth \in 1..MaxGlueDepth /\ DOMAIN frame = 0..MaxGlueDepth
      /\ 0 \in DOMAIN frame /\ depth # 0
  BY <1>1, CallerWaits, LimitsAssumption
<1>3. \/ frame' = [frame EXCEPT ![depth] = Unused]
      \/ \E f, g : /\ f.name = caller.name
                   /\ frame' = [frame EXCEPT ![depth - 1] = f, ![depth] = g]
  <2>1. CASE UseAddress
    BY <2>1 DEF UseAddress, Descend
  <2>2. CASE TryNextHost
    BY <2>2 DEF TryNextHost, Await
  <2> QED BY <2>1, <2>2 DEF NoHostResolved
<1>4. frame'[0].name = frame[0].name
  BY <1>2, <1>3 DEF caller
<1>5. RetFollows'
  BY <1>1, RetTypes DEF RetFollows
<1> QED BY <1>1, <1>4, <1>5, NothingCollected DEF ChainInv

(* What Handle has collected when a resolution returned.                   *)
LEMMA CollectFollows ==
    ASSUME IInv, ChainInv, Collect,
           NEW Names, query.name \in Names, LeadsOn(answer', Names)
    PROVE  /\ Owned(answer', Names)
           /\ frame[0].name \in Names
           /\ LeadsOn(RecordsOf(ret.result.answer), Names)
<1>1. /\ answer' = answer \cup RecordsOf(ret.result.answer)
      /\ depth = 0 /\ outcome = Pending /\ ret.state = "returned"
  BY DEF Collect, ResolutionReturns, Succeeded
<1>2. LeadsOn(answer, Names) /\ LeadsOn(RecordsOf(ret.result.answer), Names)
  BY <1>1 DEF LeadsOn
<1>3. frame[0].name \in Names /\ Owned(answer, Names)
  BY <1>1, <1>2 DEF ChainInv, CollectedFollows
<1>4. Owned(RecordsOf(ret.result.answer), Names)
  BY <1>1, <1>2, <1>3 DEF ChainInv, RetFollows, Follows
<1> QED BY <1>1, <1>2, <1>3, <1>4 DEF Owned

LEMMA RespondChainInv ==
    ASSUME IInv, ChainInv, HandleFails \/ HandleNegative \/ HandleComplete \/ TooManyRestarts
    PROVE  ChainInv'
<1>1. outcome' # Pending /\ UNCHANGED <<query, depth, frame, ret>>
  BY StatesDiffer DEF HandleFails, HandleNegative, HandleComplete, TooManyRestarts,
                      Restart, Collect, ResolutionReturns
<1>2. RetFollows' /\ CollectedFollows'
  BY <1>1 DEF ChainInv, RetFollows, CollectedFollows, Follows
<1>3. ResponseFollows'
  <2>1. CASE outcome' = Error
    BY <2>1, StatesDiffer DEF ResponseFollows
  <2>2. CASE HandleNegative \/ HandleComplete
    <3>1. Collect /\ outcome'.answer = answer'
      BY <2>2 DEF HandleNegative, HandleComplete, Response
    <3> QED BY <1>1, <3>1, CollectFollows DEF ResponseFollows
  <2> QED BY <2>1, <2>2 DEF HandleFails, TooManyRestarts
<1> QED BY <1>2, <1>3 DEF ChainInv

LEMMA RestartChainInv ==
    ASSUME IInv, ChainInv, HandleRestart
    PROVE  ChainInv'
<1>1. /\ Collect /\ ret' = Running
      /\ UNCHANGED <<query, outcome>>
  BY DEF HandleRestart, Restart, Collect, ResolutionReturns
<1>2. PICK target \in Targets : frame' = [frame EXCEPT ![0] = Fresh(target)]
  BY DEF HandleRestart
<1>3. frame'[0].name = target
  BY <1>2, LimitsAssumption DEF IInv, TypeOK, Fresh
<1>4. IsSection(ret.result.answer)
  BY DEF IInv, TypeOK, IsMessage
<1>5. ASSUME NEW Names, query.name \in Names, LeadsOn(answer', Names)
      PROVE  target \in Names /\ Owned(answer', Names)
  <2>1. /\ Owned(answer', Names) /\ frame[0].name \in Names
        /\ LeadsOn(RecordsOf(ret.result.answer), Names)
    BY <1>1, <1>5, CollectFollows
  <2> QED BY <1>2, <1>4, <2>1, TargetsFollow DEF Targets
<1>6. CollectedFollows'
  BY <1>1, <1>3, <1>5 DEF CollectedFollows
<1>7. RetFollows'
  BY <1>1, RetTypes DEF RetFollows
<1>8. ResponseFollows'
  BY <1>1, RetTypes DEF ChainInv, ResponseFollows, Collect, ResolutionReturns, Pending
<1> QED BY <1>6, <1>7, <1>8 DEF ChainInv

LEMMA NextChainInv == IInv /\ ChainInv /\ [Next]_vars => ChainInv'
<1> SUFFICES ASSUME IInv, ChainInv, [Next]_vars PROVE ChainInv'
  OBVIOUS
<1>1. CASE UNCHANGED vars
  BY <1>1 DEF vars, ChainInv, RetFollows, CollectedFollows, ResponseFollows
<1>2. CASE TooManyHops \/ OutOfBudget \/ LookupReturns
  BY <1>2, WalkChainInv
<1>3. CASE UseAddress \/ TryNextHost \/ NoHostResolved
  BY <1>3, HostChainInv
<1>4. CASE HandleFails \/ HandleNegative \/ HandleComplete \/ TooManyRestarts
  BY <1>4, RespondChainInv
<1>5. CASE HandleRestart
  BY <1>5, RestartChainInv
<1> QED BY <1>1, <1>2, <1>3, <1>4, <1>5 DEF Next

(* Whatever servers send and the cache holds, each record of a response    *)
(* answers the queried name or a name its CNAMEs lead to from there.       *)
THEOREM HandleAnswersAreChains == Spec => []AnswerIsAChain
<1>1. ChainInv => AnswerIsAChain
  BY DEF ChainInv, ResponseFollows, AnswerIsAChain
<1> QED BY Invariance, InitChainInv, NextChainInv, <1>1, PTL DEF Spec

-----------------------------------------------------------------------------
(***************************************************************************)
(* GeminiHandler, for all limits, costs and replies of its model: it keeps *)
(* its budgets, and tells the model what is left of them.  The invariant   *)
(* counts the lookups made against those of the turns begun, and says that *)
(* the 32-bit count of the tokens is the real one.                         *)
(***************************************************************************)
(* Lookups made and lookups left add up, and none was made without one     *)
(* left.                                                                   *)
LookupsPaid ==
    /\ Len(history) + lookupsRemaining = limit.total
    /\ history # << >> => lookupsRemaining >= 0

(* Up to here no turn has made more lookups than a turn may, the running   *)
(* one counted with those it is still to make.                             *)
LookupsPaced ==
    /\ pc = "lookups" \/ turn > 0 \/ history # << >> => limit.perTurn >= 1
    /\ pc \in {"turn", "asked", "replied"} => Len(history) <= turn * limit.perTurn
    /\ pc = "lookups" => Len(history) + batch <= (turn + 1) * limit.perTurn
    /\ pc = "done" /\ history # << >> => Len(history) <= (turn + 1) * limit.perTurn

TurnsPaced ==
    /\ pc \in {"asked", "replied", "lookups"} => turn < limit.turns
    /\ history # << >> => turn <= limit.turns

(* With a budget that leaves room, the count of 32 bits is the real one.   *)
TokensCounted ==
    LeavesRoom =>
        /\ tokensUsed = spent
        /\ pc \in {"turn", "asked"} => spent = 0 \/ spent <= limit.tokens
        /\ pc = "lookups" \/ result = "response" => spent <= limit.tokens

Undecided == pc # "done" => result = "none"

ModelInv == /\ GeminiTypeOK
            /\ Undecided
            /\ LookupsPaid
            /\ LookupsPaced
            /\ TurnsPaced
            /\ TokensCounted
            /\ ToldTheTruth

(* Int32 stays within 32 bits, and leaves what is within them alone.       *)
LEMMA ModuloFacts ==
    ASSUME NEW a \in Int, NEW m \in Nat \ {0}
    PROVE  a % m \in 0..m - 1 /\ (a \in 0..m - 1 => a % m = a)
OBVIOUS

LEMMA Int32Facts ==
    ASSUME NEW n \in Int
    PROVE  /\ Int32(n) \in -HalfRange..HalfRange - 1
           /\ n \in -HalfRange..HalfRange - 1 => Int32(n) = n
<1> DEFINE a == n + HalfRange
           m == 2 * HalfRange
<1>1. HalfRange \in Nat /\ HalfRange > 0
  BY HalfRangeAssumption
<1>2. a \in Int /\ m \in Nat \ {0}
  BY <1>1
<1>3. a % m \in 0..m - 1 /\ (a \in 0..m - 1 => a % m = a)
  BY <1>2, ModuloFacts
<1>4. Int32(n) = (a % m) - HalfRange
  BY DEF Int32
<1> DEFINE r == a % m
<1>5. r \in 0..m - 1 /\ (a \in 0..m - 1 => r = a) /\ Int32(n) = r - HalfRange
  BY <1>3, <1>4
<1> HIDE DEF r
<1> QED BY <1>1, <1>5

LEMMA LimitOfType ==
    ASSUME NEW c \in Configs
    PROVE  /\ LimitOf(c) \in Limits
           /\ LimitOf(c).tokens \in -HalfRange..HalfRange - 1
<1>1. /\ c.turns \in Int /\ c.tokens \in Int /\ c.perTurn \in Int /\ c.total \in Int
      /\ Default \in Limits /\ Default.tokens \in -HalfRange..HalfRange - 1
  BY BudgetsAssumption DEF Limits
<1>2. Int32(c.tokens) \in -HalfRange..HalfRange - 1
  BY <1>1, Int32Facts
<1>3. HalfRange \in Nat
  BY HalfRangeAssumption
<1>4. OrDefault(Int32(c.tokens), Default.tokens) \in -HalfRange..HalfRange - 1
  BY <1>1, <1>2 DEF OrDefault
<1> QED BY <1>1, <1>3, <1>4 DEF LimitOf, OrDefault, Limits

LEMMA TurnInputType ==
    ASSUME GeminiTypeOK
    PROVE  TurnInput \in [turns : Int, tokens : Int, lookups : Int,
                          history : Seq({"result", "error"})]
<1>1. limit.turns - turn \in Int /\ limit.tokens - tokensUsed \in Int
  BY HalfRangeAssumption DEF GeminiTypeOK, Limits
<1>2. Int32(limit.tokens - tokensUsed) \in Int
  BY <1>1, Int32Facts, HalfRangeAssumption
<1> QED BY <1>1, <1>2 DEF GeminiTypeOK, TurnInput

LEMMA ModelInit ==
    GeminiInit => ModelInv
<1> SUFFICES ASSUME GeminiInit PROVE ModelInv
  OBVIOUS
<1> USE DEF GeminiInit
<1>1. PICK c \in Configs : limit = LimitOf(c)
  OBVIOUS
<1>2. limit \in Limits /\ limit.tokens \in -HalfRange..HalfRange - 1
  BY <1>1, LimitOfType
<1>3. << >> \in Seq({"result", "error"}) /\ Len(<< >>) = 0
  OBVIOUS
<1>4. HalfRange \in Nat /\ HalfRange > 0 /\ 0 \in -HalfRange..HalfRange - 1
  BY HalfRangeAssumption
<1>5. GeminiTypeOK
  <2>1. limit.turns - 0 \in Int /\ limit.tokens - 0 \in Int /\ limit.total \in Int
    BY <1>2, <1>4 DEF Limits
  <2>2. Int32(limit.tokens - 0) \in Int
    BY <2>1, <1>4, Int32Facts
  <2>3. told \in [turns : Int, tokens : Int, lookups : Int,
                  history : Seq({"result", "error"})]
    BY <1>3, <2>1, <2>2 DEF TurnInput
  <2> QED BY <1>2, <1>3, <1>4, <2>1, <2>3 DEF GeminiTypeOK
<1>6. LookupsPaid /\ TurnsPaced /\ TokensCounted /\ ToldTheTruth
  BY <1>2, <1>3 DEF LookupsPaid, TurnsPaced, TokensCounted, ToldTheTruth, Limits
<1>7. LookupsPaced
  <2>1. 0 * limit.perTurn = 0
    BY <1>2 DEF Limits
  <2> QED BY <1>3, <2>1 DEF LookupsPaced
<1> QED BY <1>5, <1>6, <1>7 DEF ModelInv, Undecided

(* The numbers that the steps below count with.                            *)
LEMMA Numbers ==
    ASSUME GeminiTypeOK
    PROVE  /\ HalfRange \in Nat /\ HalfRange > 0
           /\ limit.turns \in Int /\ limit.tokens \in Int
           /\ limit.perTurn \in Int /\ limit.total \in Int
           /\ Len(history) \in Nat /\ turn \in Nat /\ batch \in Nat /\ spent \in Nat
           /\ tokensUsed \in Int /\ lookupsRemaining \in Int
           /\ Costs \subseteq Nat /\ \A n \in Costs : n < HalfRange
BY HalfRangeAssumption, CostsAssumption DEF GeminiTypeOK, Limits

LEMMA OneMore ==
    ASSUME NEW a \in Int, NEW b \in Int
    PROVE  (a + 1) * b = a * b + b /\ a * b \in Int
OBVIOUS

LEMMA OneMoreTurn ==
    ASSUME GeminiTypeOK
    PROVE  /\ (turn + 1) * limit.perTurn = turn * limit.perTurn + limit.perTurn
           /\ turn * limit.perTurn \in Int
<1>1. turn \in Int /\ limit.perTurn \in Int
  BY Numbers
<1> QED BY <1>1, OneMore

(* Asking tells the model the truth, for the count is the real one.        *)
LEMMA AskStep ==
    ASSUME ModelInv, Ask
    PROVE  ModelInv'
<1> USE DEF Ask, Goto, budgetVars
<1>1. GeminiTypeOK
  BY DEF ModelInv
<1>2. GeminiTypeOK'
  BY <1>1, TurnInputType DEF GeminiTypeOK
<1>3. LookupsPaid' /\ LookupsPaced' /\ TurnsPaced'
  BY DEF ModelInv, LookupsPaid, LookupsPaced, TurnsPaced
<1>4. TokensCounted'
  BY DEF ModelInv, TokensCounted, LeavesRoom
<1>5. ToldTheTruth'
  <2>1. told'.turns > 0 /\ told'.turns + turn = limit.turns
    <3>1. told'.turns = limit.turns - turn /\ turn < limit.turns
      BY DEF TurnInput
    <3>2. limit.turns \in Int /\ turn \in Int
      BY <1>1, Numbers
    <3> QED BY <3>1, <3>2
  <2>2. told'.lookups + Len(told'.history) = limit.total /\ told'.history = history
    BY <1>1, Numbers DEF TurnInput, ModelInv, LookupsPaid
  <2>3. ASSUME LeavesRoom PROVE told'.tokens + spent = limit.tokens
    <3>1. tokensUsed = spent /\ (spent = 0 \/ spent <= limit.tokens)
      BY <2>3 DEF ModelInv, TokensCounted
    <3>2. limit.tokens - tokensUsed \in -HalfRange..HalfRange - 1
      BY <1>1, <3>1, Numbers DEF GeminiTypeOK
    <3>3. limit.tokens - tokensUsed \in Int
      BY <1>1, Numbers
    <3>4. Int32(limit.tokens - tokensUsed) = limit.tokens - tokensUsed
      BY <3>2, <3>3, Int32Facts
    <3>5. told'.tokens = limit.tokens - tokensUsed
      BY <3>4 DEF TurnInput
    <3> QED BY <1>1, <3>1, <3>5, Numbers
  <2>4. LeavesRoom' <=> LeavesRoom
    BY DEF LeavesRoom
  <2> QED BY <2>1, <2>2, <2>3, <2>4 DEF ToldTheTruth
<1> QED BY <1>2, <1>3, <1>4, <1>5 DEF ModelInv, Undecided

(* A reply is paid for; if the budget leaves room, nothing overflows.      *)
LEMMA ReplyStep ==
    ASSUME ModelInv, Reply
    PROVE  ModelInv'
<1> USE DEF Reply, Goto
<1>1. GeminiTypeOK
  BY DEF ModelInv
<1>2. PICK n \in Costs : tokensUsed' = Int32(tokensUsed + n) /\ spent' = spent + n
  OBVIOUS
<1>3. /\ n \in Nat /\ n < HalfRange /\ tokensUsed + n \in Int /\ spent' \in Nat
      /\ tokensUsed' \in -HalfRange..HalfRange - 1
  <2>1. n \in Nat /\ n < HalfRange /\ tokensUsed \in Int /\ spent \in Nat
    BY <1>1, Numbers
  <2>2. tokensUsed + n \in Int /\ spent' \in Nat
    BY <1>2, <2>1
  <2>3. tokensUsed' \in -HalfRange..HalfRange - 1
    BY <1>2, <2>2, Int32Facts
  <2> QED BY <2>1, <2>2, <2>3
<1>4. GeminiTypeOK'
  BY <1>1, <1>3 DEF GeminiTypeOK
<1>5. LookupsPaid' /\ LookupsPaced' /\ TurnsPaced' /\ ToldTheTruth'
  BY DEF ModelInv, LookupsPaid, LookupsPaced, TurnsPaced, ToldTheTruth
<1>6. TokensCounted'
  <2>1. ASSUME LeavesRoom PROVE tokensUsed' = spent'
    <3>1. tokensUsed = spent /\ (spent = 0 \/ spent <= limit.tokens)
      BY <2>1 DEF ModelInv, TokensCounted
    <3>2. limit.tokens + n < HalfRange
      BY <2>1 DEF LeavesRoom
    <3>3. spent \in Nat /\ limit.tokens \in Int /\ HalfRange \in Nat
      BY <1>1, Numbers
    <3>4. spent + n \in -HalfRange..HalfRange - 1
      BY <1>3, <3>1, <3>2, <3>3
    <3>5. Int32(spent + n) = spent + n
      BY <1>3, <3>3, <3>4, Int32Facts
    <3> QED BY <1>2, <3>1, <3>5
  <2>2. result' # "response" /\ (LeavesRoom' <=> LeavesRoom)
    BY DEF ModelInv, Undecided, LeavesRoom
  <2> QED BY <2>1, <2>2 DEF TokensCounted
<1> QED BY <1>4, <1>5, <1>6 DEF ModelInv, Undecided

(* An answer, or a batch of lookups, is taken within the budget only.      *)
LEMMA RepliedStep ==
    ASSUME ModelInv, Answer \/ LookUp
    PROVE  ModelInv'
<1>1. GeminiTypeOK
  BY DEF ModelInv
<1>2. LeavesRoom' <=> LeavesRoom
  BY DEF Answer, LookUp, LeavesRoom
<1>3. tokensUsed <= limit.tokens
  BY DEF Answer, LookUp, WithinTokens
<1>4. TokensCounted'
  BY <1>2, <1>3 DEF ModelInv, Undecided, TokensCounted,
                    Answer, LookUp, Goto, budgetVars
<1> DEFINE p == limit.perTurn
<1>5. CASE Answer
  <2> USE <1>5 DEF Answer, Goto, budgetVars
  <2>1. GeminiTypeOK'
    BY <1>1 DEF GeminiTypeOK
  <2>2. history # << >> => Len(history) <= (turn + 1) * p
    <3>1. (turn + 1) * p = turn * p + p /\ turn * p \in Int /\ p \in Int
      BY <1>1, Numbers, OneMoreTurn
    <3>2. history # << >> => p >= 1 /\ Len(history) <= turn * p
      BY DEF ModelInv, LookupsPaced
    <3> DEFINE m == turn * p
    <3>3. Len(history) \in Nat /\ m \in Int
      BY <1>1, <3>1, Numbers
    <3> HIDE DEF m, p
    <3> QED BY <3>1, <3>2, <3>3
  <2>3. LookupsPaid' /\ LookupsPaced' /\ TurnsPaced' /\ ToldTheTruth' /\ Undecided'
    BY <2>2 DEF ModelInv, LookupsPaid, LookupsPaced, TurnsPaced, ToldTheTruth, Undecided
  <2> QED BY <1>4, <2>1, <2>3 DEF ModelInv
<1>6. CASE LookUp
  <2> USE <1>6 DEF LookUp, Goto, budgetVars
  <2>1. batch' \in Nat /\ 1 <= batch' /\ batch' <= p /\ p \in Int
    BY <1>1, Numbers
  <2>2. GeminiTypeOK'
    BY <1>1, <2>1 DEF GeminiTypeOK
  <2>3. Len(history) + batch' <= (turn + 1) * p
    <3>1. (turn + 1) * p = turn * p + p /\ turn * p \in Int
      BY <1>1, OneMoreTurn
    <3>2. Len(history) <= turn * p
      BY DEF ModelInv, LookupsPaced
    <3> DEFINE m == turn * p
    <3>3. Len(history) \in Nat /\ m \in Int
      BY <1>1, <3>1, Numbers
    <3> HIDE DEF m, p
    <3> QED BY <2>1, <3>1, <3>2, <3>3
  <2>4. LookupsPaced'
    BY <2>1, <2>3 DEF LookupsPaced
  <2>5. LookupsPaid' /\ TurnsPaced' /\ ToldTheTruth' /\ Undecided'
    BY DEF ModelInv, LookupsPaid, TurnsPaced, ToldTheTruth, Undecided
  <2> QED BY <1>4, <2>2, <2>4, <2>5 DEF ModelInv
<1> QED BY <1>5, <1>6

(* A lookup is paid for before it is made, whatever comes of it.           *)
LEMMA LookupStep ==
    ASSUME ModelInv, PerformLookup
    PROVE  ModelInv'
<1> USE DEF PerformLookup
<1>1. GeminiTypeOK
  BY DEF ModelInv
<1>2. PICK r \in {"result", "error"} : history' = Append(history, r)
  OBVIOUS
<1>3. /\ history' \in Seq({"result", "error"})
      /\ Len(history') = Len(history) + 1 /\ history' # << >>
      /\ batch' \in Nat /\ lookupsRemaining' \in Int /\ lookupsRemaining' >= 0
      /\ lookupsRemaining' = lookupsRemaining - 1 /\ batch' = batch - 1
  BY <1>1, <1>2 DEF GeminiTypeOK
<1>4. GeminiTypeOK'
  BY <1>1, <1>3 DEF GeminiTypeOK
<1>5. LookupsPaid'
  BY <1>1, <1>3, Numbers DEF ModelInv, LookupsPaid
<1>6. LookupsPaced'
  <2>1. Len(history) + batch <= (turn + 1) * limit.perTurn /\ limit.perTurn >= 1
    BY DEF ModelInv, LookupsPaced
  <2>2. Len(history') + batch' = Len(history) + batch
    BY <1>1, <1>3, Numbers
  <2> QED BY <2>1, <2>2 DEF LookupsPaced
<1>7. TurnsPaced'
  BY <1>1, Numbers DEF ModelInv, TurnsPaced
<1>8. TokensCounted' /\ ToldTheTruth' /\ Undecided'
  BY DEF ModelInv, TokensCounted, LeavesRoom, ToldTheTruth, Undecided
<1> QED BY <1>4, <1>5, <1>6, <1>7, <1>8 DEF ModelInv

LEMMA TurnStep ==
    ASSUME ModelInv, NextTurn
    PROVE  ModelInv'
<1> USE DEF NextTurn, Goto
<1>1. GeminiTypeOK
  BY DEF ModelInv
<1>2. GeminiTypeOK'
  BY <1>1 DEF GeminiTypeOK
<1>3. LookupsPaced'
  <2>1. Len(history) <= (turn + 1) * limit.perTurn /\ limit.perTurn >= 1
    BY <1>1, Numbers DEF ModelInv, LookupsPaced
  <2> QED BY <2>1 DEF LookupsPaced
<1>4. LookupsPaid' /\ TurnsPaced'
  BY <1>1, Numbers DEF ModelInv, LookupsPaid, TurnsPaced
<1>5. TokensCounted' /\ ToldTheTruth' /\ Undecided'
  BY DEF ModelInv, TokensCounted, LeavesRoom, ToldTheTruth, Undecided
<1> QED BY <1>2, <1>3, <1>4, <1>5 DEF ModelInv

LEMMA FailStep ==
    ASSUME ModelInv, Fail
    PROVE  ModelInv'
<1> USE DEF Fail, budgetVars
<1>1. GeminiTypeOK
  BY DEF ModelInv
<1>2. GeminiTypeOK'
  BY <1>1 DEF GeminiTypeOK
<1> DEFINE m == turn * limit.perTurn
<1>3. LookupsPaced'
  <2>1. ASSUME history # << >> PROVE Len(history) <= (turn + 1) * limit.perTurn
    <3>1. /\ limit.perTurn \in Int /\ limit.perTurn >= 1 /\ m \in Int
          /\ (turn + 1) * limit.perTurn = m + limit.perTurn
          /\ Len(history) \in Nat /\ batch \in Nat
      <4>1. limit.perTurn >= 1
        BY <2>1 DEF ModelInv, LookupsPaced
      <4> QED BY <1>1, <4>1, Numbers, OneMoreTurn
    <3>2. CASE pc = "lookups"
      <4>1. Len(history) + batch <= m + limit.perTurn
        BY <3>1, <3>2 DEF ModelInv, LookupsPaced
      <4> HIDE DEF m
      <4> QED BY <3>1, <4>1
    <3>3. CASE pc # "lookups"
      <4>1. Len(history) <= m
        BY <3>3 DEF ModelInv, LookupsPaced
      <4> HIDE DEF m
      <4> QED BY <3>1, <4>1
    <3> QED BY <3>2, <3>3
  <2> QED BY <2>1 DEF ModelInv, LookupsPaced
<1>4. LookupsPaid' /\ TurnsPaced' /\ ToldTheTruth' /\ Undecided'
  BY DEF ModelInv, LookupsPaid, TurnsPaced, ToldTheTruth, Undecided
<1>5. TokensCounted'
  BY DEF ModelInv, TokensCounted, LeavesRoom
<1> QED BY <1>2, <1>3, <1>4, <1>5 DEF ModelInv

LEMMA ModelNext ==
    ModelInv /\ [GeminiNext]_geminiVars => ModelInv'
<1>1. ASSUME ModelInv, UNCHANGED geminiVars PROVE ModelInv'
  BY <1>1 DEF ModelInv, GeminiTypeOK, LookupsPaid, LookupsPaced, TurnsPaced, TokensCounted,
              LeavesRoom, ToldTheTruth, Undecided, geminiVars, budgetVars
<1> QED BY <1>1, AskStep, ReplyStep, RepliedStep, LookupStep, TurnStep, FailStep
        DEF GeminiNext

(* The counters stay numbers, those of 32 bits within 32 bits.             *)
THEOREM ModelTypeOK ==
    GeminiSpec => []GeminiTypeOK
<1>1. ModelInv => GeminiTypeOK
  BY DEF ModelInv
<1> QED BY <1>1, ModelInit, ModelNext, PTL DEF GeminiSpec

(* Whatever the model replies and whatever the limits, no call makes more  *)
(* lookups than a call or its turns may, and with a budget that leaves     *)
(* room for one more reply nothing is done for tokens beyond it.           *)
THEOREM BudgetsHold ==
    GeminiSpec => []WithinBudgets
<1>1. ModelInv => WithinBudgets
  <2> SUFFICES ASSUME ModelInv PROVE WithinBudgets
    OBVIOUS
  <2>1. GeminiTypeOK
    BY DEF ModelInv
  <2>2. history # << >> => Len(history) <= limit.total /\ turn <= limit.turns
    BY <2>1, Numbers DEF ModelInv, LookupsPaid, TurnsPaced
  <2> DEFINE m == turn * limit.perTurn
  <2>3. ASSUME history # << >> PROVE Len(history) <= (turn + 1) * limit.perTurn
    <3>1. /\ limit.perTurn \in Int /\ limit.perTurn >= 1 /\ m \in Int
          /\ (turn + 1) * limit.perTurn = m + limit.perTurn
          /\ Len(history) \in Nat /\ batch \in Nat
      <4>1. limit.perTurn >= 1
        BY <2>3 DEF ModelInv, LookupsPaced
      <4> QED BY <2>1, <4>1, Numbers, OneMoreTurn
    <3>2. \/ Len(history) <= m
          \/ Len(history) + batch <= m + limit.perTurn
          \/ Len(history) <= m + limit.perTurn
      BY <2>1, <2>3, <3>1 DEF ModelInv, LookupsPaced, GeminiTypeOK
    <3> HIDE DEF m
    <3> QED BY <3>1, <3>2
  <2>4. LeavesRoom /\ (pc \in {"lookups", "asked"} \/ result = "response") =>
            spent <= limit.tokens \/ (pc = "asked" /\ spent = 0)
    BY DEF ModelInv, TokensCounted
  <2> QED BY <2>2, <2>3, <2>4 DEF WithinBudgets
<1> QED BY <1>1, ModelInit, ModelNext, PTL DEF GeminiSpec

(* The model is told what is left of every budget, and of every lookup.    *)
THEOREM ModelToldTheTruth ==
    GeminiSpec => []ToldTheTruth
<1>1. ModelInv => ToldTheTruth
  BY DEF ModelInv
<1> QED BY <1>1, ModelInit, ModelNext, PTL DEF GeminiSpec

LEMMA ToGoType ==
    ASSUME GeminiTypeOK
    PROVE  ToGo \in Measures(4)
<1>1. /\ AsLongAs(pc # "done") \in Nat /\ Stage \in Nat
      /\ (IF turn < limit.turns THEN limit.turns - turn ELSE 0) \in Nat /\ batch \in Nat
  BY Numbers DEF AsLongAs, Stage
<1> QED BY <1>1 DEF ToGo, Measures

LEMMA GeminiNextCounts ==
    ASSUME ModelInv, GeminiNext
    PROVE  Below(ToGo', ToGo)
<1> DEFINE left == IF turn < limit.turns THEN limit.turns - turn ELSE 0
<1>1. turn \in Nat /\ limit.turns \in Int /\ batch \in Nat
  BY Numbers DEF ModelInv
<1>2. CASE Answer \/ Fail
  <2>1. pc # "done" /\ pc' = "done"
    BY <1>2 DEF Answer, Fail, Goto
  <2>2. AsLongAs(pc # "done")' < AsLongAs(pc # "done")
    BY <2>1 DEF AsLongAs
  <2> QED BY <2>2, FourBelow DEF ToGo
<1>3. CASE NextTurn
  <2>1. pc = "lookups" /\ pc' = "turn" /\ turn' = turn + 1 /\ limit' = limit
    BY <1>3 DEF NextTurn, Goto
  <2>2. turn < limit.turns
    BY <2>1 DEF ModelInv, TurnsPaced
  <2>3. AsLongAs(pc # "done")' = AsLongAs(pc # "done")
    BY <2>1 DEF AsLongAs
  <2>4. left' < left
    BY <1>1, <2>1, <2>2
  <2> QED BY <2>3, <2>4, FourBelow DEF ToGo
<1>4. CASE Ask \/ Reply \/ LookUp
  <2>1. /\ \/ pc = "turn" /\ pc' = "asked"
           \/ pc = "asked" /\ pc' = "replied"
           \/ pc = "replied" /\ pc' = "lookups"
        /\ UNCHANGED <<turn, limit>>
    BY <1>4 DEF Ask, Reply, LookUp, Goto, budgetVars
  <2>2. AsLongAs(pc # "done")' = AsLongAs(pc # "done") /\ left' = left
    BY <2>1 DEF AsLongAs
  <2>3. Stage' < Stage
    BY <2>1 DEF Stage
  <2> QED BY <2>2, <2>3, FourBelow DEF ToGo
<1>5. CASE PerformLookup
  <2>1. UNCHANGED <<pc, turn, limit>> /\ batch' = batch - 1
    BY <1>5 DEF PerformLookup
  <2>2. Stage' = Stage
    BY <2>1 DEF Stage
  <2>3. batch' < batch
    BY <1>1, <2>1
  <2> QED BY <2>1, <2>2, <2>3, FourBelow DEF ToGo
<1> QED BY <1>2, <1>3, <1>4, <1>5 DEF GeminiNext

(* Whatever the model replies, each step of the call lowers a measure that *)
(* cannot run down for ever (BelowWellFounded).                            *)
THEOREM ModelRunsDown ==
    GeminiSpec => EveryTurnCounts
<1>1. ModelInv /\ [GeminiNext]_geminiVars
        => [ToGo' \in Measures(4) /\ Below(ToGo', ToGo)]_geminiVars
  <2>1. ModelInv' => (ToGo \in Measures(4))'
    BY ToGoType, PTL DEF ModelInv
  <2> QED BY <2>1, ModelNext, GeminiNextCounts
<1> QED BY <1>1, ModelInit, ModelNext, PTL DEF GeminiSpec, EveryTurnCounts
=============================================================================
