-------------------------- MODULE FilterLoopProofs --------------------------
(***************************************************************************)
(* The loop of filterInBailiwick takes exactly the records of the in-zone  *)
(* CNAME chain, for every zone, name and answer section; and the walk of   *)
(* unresolvedCNAMETarget along them finds where it was cut.                *)
(***************************************************************************)
EXTENDS ChainWalk, RecordFacts

zone == input.zone
Names == ChainNames(zone, input.name, answer)
step == NextInChain(answer, Names)
reached == Orbit(input.name, step, Names)

WholeOwners ==
    \A i \in accepted, j \in DOMAIN answer :
        EqualFold(answer[i].owner, answer[j].owner) => j \in accepted

(* Every record taken belongs to the chain, and so does the name expected. *)
Sound == /\ accepted \subseteq UNION {At(answer, n) : n \in reached}
         /\ expect \in {input.name} \cup {answer[i].target : i \in OfType(answer, "CNAME")}
         /\ IsSubDomain(zone, expect) => expect \in reached

(* What has been taken is all of the chain up to the name expected.        *)
Complete ==
    /\ At(answer, input.name) \subseteq accepted \/ EqualFold(expect, input.name)
    /\ \A n \in Names : CNAMEsAt(answer, n) # {} /\ At(answer, n) \subseteq accepted =>
            \/ ~IsSubDomain(zone, step[n])
            \/ At(answer, step[n]) \subseteq accepted
            \/ EqualFold(expect, step[n])
    /\ done => ~IsSubDomain(zone, expect) \/ At(answer, expect) \subseteq accepted

IInv == TypeOK /\ OnlyTrusted /\ WholeOwners /\ Sound /\ Complete

-----------------------------------------------------------------------------
LEMMA InputTypes ==
    ASSUME input \in Inputs
    PROVE  /\ zone \in Name
           /\ input.name \in Name
           /\ IsSection(answer)
           /\ Names \subseteq Name
           /\ \A i \in DOMAIN answer :
                /\ i \in Nat
                /\ answer[i].owner \in Name
                /\ answer[i].target \in Name
<1>1. zone \in Name /\ input.name \in Name /\ IsSection(answer)
  BY InputsAssumption DEF zone, answer
<1>2. \A i \in DOMAIN answer :
        i \in Nat /\ answer[i].owner \in Name /\ answer[i].target \in Name
  BY <1>1 DEF IsSection, RR
<1> QED BY <1>1, <1>2 DEF Names, ChainNames, OfType

LEMMA InitIInv == Init => IInv
<1> SUFFICES ASSUME Init PROVE IInv
  OBVIOUS
<1> USE DEF Init
<1>0. /\ input \in Inputs
      /\ zone \in Name
      /\ input.name \in Name
      /\ IsSection(answer)
  BY InputTypes
<1>1. TypeOK
  BY <1>0 DEF TypeOK, answer
<1>2. OnlyTrusted /\ WholeOwners
  BY DEF OnlyTrusted, WholeOwners
<1>3. Sound
  <2>1. IsSubDomain(zone, input.name) => input.name \in Names
    BY DEF Names, ChainNames
  <2>2. IsSubDomain(zone, input.name) => input.name \in reached
    BY <2>1, OrbitStart DEF reached
  <2> QED BY <2>2 DEF Sound
<1>4. Complete
  <2>1. EqualFold(input.name, input.name)
    BY <1>0, EqualFoldReflexive
  <2>2. ASSUME NEW n \in Names, CNAMEsAt(answer, n) # {}, At(answer, n) \subseteq accepted
        PROVE  FALSE
    BY <2>2 DEF CNAMEsAt
  <2> QED BY <2>1, <2>2 DEF Complete
<1> QED BY <1>1, <1>2, <1>3, <1>4 DEF IInv

(* A turn takes all the records of the expected name, or none.             *)
LEMMA MatchedIsWhole ==
    ASSUME IInv, Matched # {}
    PROVE  /\ Matched = At(answer, expect)
           /\ Continues = CNAMEsAt(answer, expect)
<1>1. PICK k \in Matched : TRUE
  OBVIOUS
<1>2. ASSUME NEW i \in At(answer, expect) PROVE i \in remaining
  <2>1. /\ EqualFold(answer[i].owner, expect)
        /\ EqualFold(answer[k].owner, expect)
        /\ i \in DOMAIN answer
        /\ k \in DOMAIN answer
    BY <1>1, <1>2 DEF Matched, At
  <2>2. EqualFold(answer[i].owner, answer[k].owner)
    BY <2>1, InputTypes, EqualFoldSymmetric, EqualFoldTransitive DEF IInv, TypeOK
  <2>3. k \notin accepted
    BY <1>1 DEF Matched, IInv, TypeOK
  <2> QED BY <2>1, <2>2, <2>3 DEF IInv, TypeOK, WholeOwners
<1>3. Matched = At(answer, expect)
  BY <1>2 DEF Matched
<1> QED BY <1>3 DEF Continues, CNAMEsAt

-----------------------------------------------------------------------------
(* Leaving the loop without taking anything.                               *)
LEMMA LeaveIInv ==
    ASSUME IInv, LeaveZone \/ NoMatch
    PROVE  IInv'
<1>1. /\ UNCHANGED <<input, expect, remaining, accepted>>
      /\ done' = TRUE
  BY DEF LeaveZone, NoMatch
<1>2. UNCHANGED <<answer, zone, Names, step, reached>>
  BY <1>1 DEF answer, zone, Names, step, reached
<1>3. TypeOK' /\ OnlyTrusted' /\ WholeOwners' /\ Sound'
  BY <1>1, <1>2 DEF IInv, TypeOK, OnlyTrusted, WholeOwners, Sound
<1>4. ~IsSubDomain(zone, expect) \/ At(answer, expect) \subseteq accepted
  <2>1. CASE LeaveZone
    BY <2>1 DEF LeaveZone, zone
  <2>2. CASE NoMatch
    BY <2>2 DEF NoMatch, Matched, IInv, TypeOK, At
  <2> QED BY <2>1, <2>2
<1>5. Complete'
  BY <1>1, <1>2, <1>4 DEF IInv, Complete
<1> QED BY <1>3, <1>5 DEF IInv

(* What taking the records of the expected name establishes, whether the   *)
(* chain ends there or goes on.                                            *)
LEMMA TakeFacts ==
    ASSUME IInv, Take
    PROVE  /\ Matched = At(answer, expect)
           /\ Continues = CNAMEsAt(answer, expect)
           /\ At(answer, expect) \subseteq accepted'
           /\ accepted \subseteq accepted'
           /\ accepted' = DOMAIN answer \ remaining'
           /\ remaining' \subseteq DOMAIN answer
           /\ OnlyTrusted'
           /\ WholeOwners'
           /\ expect \in reached
           /\ accepted' \subseteq UNION {At(answer, n) : n \in reached}
<1>1. Matched = At(answer, expect) /\ Continues = CNAMEsAt(answer, expect)
  BY MatchedIsWhole DEF Take
<1>2. /\ accepted' = accepted \cup At(answer, expect)
      /\ remaining' = remaining \ At(answer, expect)
      /\ input' = input
      /\ IsSubDomain(zone, expect)
  BY <1>1 DEF Take, zone
<1>3. accepted' = DOMAIN answer \ remaining' /\ remaining' \subseteq DOMAIN answer
  <2>1. At(answer, expect) \subseteq DOMAIN answer
    BY DEF At
  <2> QED BY <1>2, <2>1 DEF IInv, TypeOK
<1>4. OnlyTrusted'
  <2>1. ASSUME NEW i \in At(answer, expect)
        PROVE  IsSubDomain(zone, answer[i].owner)
    BY <1>2, <2>1, InputTypes, SubDomainFold, EqualFoldSymmetric DEF IInv, TypeOK, At
  <2> QED BY <1>2, <2>1 DEF IInv, OnlyTrusted, answer, zone
<1>5. WholeOwners'
  <2>1. ASSUME NEW i \in At(answer, expect), NEW j \in DOMAIN answer,
               EqualFold(answer[i].owner, answer[j].owner)
        PROVE  j \in At(answer, expect)
    BY <2>1, InputTypes, EqualFoldSymmetric, EqualFoldTransitive DEF IInv, TypeOK, At
  <2>2. answer' = answer
    BY <1>2 DEF answer
  <2> QED BY <1>2, <2>1, <2>2 DEF IInv, WholeOwners
<1>6. expect \in reached
  BY <1>2 DEF IInv, Sound
<1>7. accepted' \subseteq UNION {At(answer, n) : n \in reached}
  BY <1>2, <1>6 DEF IInv, Sound
<1> QED BY <1>1, <1>2, <1>3, <1>4, <1>5, <1>6, <1>7

(* A name all of whose records are taken after the turn, and which has a   *)
(* CNAME, was complete before it or is the name just taken.                *)
LEMMA TakenName ==
    ASSUME IInv, Take, NEW n \in Names,
           CNAMEsAt(answer, n) # {}, At(answer, n) \subseteq accepted'
    PROVE  At(answer, n) \subseteq accepted \/ EqualFold(n, expect)
<1> SUFFICES ASSUME ~(At(answer, n) \subseteq accepted)
             PROVE  EqualFold(n, expect)
  OBVIOUS
<1>1. PICK i \in At(answer, n) : i \notin accepted
  OBVIOUS
<1>2. i \in At(answer, expect)
  BY <1>1, TakeFacts DEF Take
<1> QED BY <1>1, <1>2, InputTypes, EqualFoldSymmetric, EqualFoldTransitive DEF IInv, TypeOK, At

LEMMA ChainEndIInv ==
    ASSUME IInv, ChainEnd
    PROVE  IInv'
<1> USE TakeFacts
<1>1. /\ Take /\ Continues = {}
      /\ input' = input /\ expect' = expect /\ done' = TRUE
  BY DEF ChainEnd, Take
<1>2. UNCHANGED <<answer, zone, Names, step, reached>>
  BY <1>1 DEF answer, zone, Names, step, reached
<1>3. TypeOK'
  BY <1>1, <1>2 DEF IInv, TypeOK
<1>4. Sound'
  BY <1>1, <1>2 DEF IInv, Sound
<1>5. Complete'
  <2>1. At(answer, input.name) \subseteq accepted' \/ EqualFold(expect, input.name)
    BY <1>1 DEF IInv, Complete
  <2>2. ASSUME NEW n \in Names, CNAMEsAt(answer, n) # {}, At(answer, n) \subseteq accepted'
        PROVE  \/ ~IsSubDomain(zone, step[n])
               \/ At(answer, step[n]) \subseteq accepted'
               \/ EqualFold(expect, step[n])
    <3>1. At(answer, n) \subseteq accepted
      <4>1. ~EqualFold(n, expect)
        BY <1>1, <2>2, InputTypes, AtFold DEF IInv, TypeOK, CNAMEsAt
      <4> QED BY <1>1, <2>2, <4>1, TakenName
    <3> QED BY <1>1, <2>2, <3>1 DEF IInv, Complete
  <2> QED BY <1>1, <1>2, <2>1, <2>2 DEF Complete
<1> QED BY <1>1, <1>3, <1>4, <1>5 DEF IInv

LEMMA ChainStepIInv ==
    ASSUME IInv, ChainStep
    PROVE  IInv'
<1> USE TakeFacts
<1>1. /\ Take /\ Continues # {}
      /\ input' = input /\ done' = done /\ ~done
      /\ expect' = answer[First(CNAMEsAt(answer, expect))].target
      /\ CNAMEsAt(answer, expect) # {}
  BY DEF ChainStep, Take
<1>2. UNCHANGED <<answer, zone, Names, step, reached>>
  BY <1>1 DEF answer, zone, Names, step, reached
<1>3. /\ First(CNAMEsAt(answer, expect)) \in CNAMEsAt(answer, expect)
      /\ expect' \in {answer[i].target : i \in OfType(answer, "CNAME")}
      /\ expect' \in Name
  <2>1. CNAMEsAt(answer, expect) \in SUBSET Nat
    BY InputTypes DEF IInv, TypeOK, CNAMEsAt, At
  <2>2. First(CNAMEsAt(answer, expect)) \in CNAMEsAt(answer, expect)
    BY <1>1, <2>1, FirstIsLeast
  <2> QED BY <1>1, <2>2, InputTypes DEF IInv, TypeOK, CNAMEsAt, At
<1>4. TypeOK'
  BY <1>1, <1>2, <1>3 DEF IInv, TypeOK
<1>5. /\ expect \in Names
      /\ expect \in DOMAIN step
      /\ step[expect] = expect'
  BY <1>1 DEF reached, Orbit, step, NextInChain
<1>6. Sound'
  <2>1. IsSubDomain(zone, expect') => expect' \in Names
    BY <1>3 DEF Names, ChainNames
  <2>2. IsSubDomain(zone, expect') => expect' \in reached
    BY <1>1, <1>5, <2>1, OrbitStep DEF reached
  <2> QED BY <1>1, <1>2, <1>3, <2>2 DEF Sound
<1>7. Complete'
  <2>1. At(answer, input.name) \subseteq accepted'
    <3>1. CASE At(answer, input.name) \subseteq accepted
      BY <1>1, <3>1
    <3>2. CASE EqualFold(expect, input.name)
      BY <1>1, <3>2, InputTypes, AtFold DEF IInv, TypeOK
    <3> QED BY <3>1, <3>2 DEF IInv, Complete
  <2>2. ASSUME NEW n \in Names, CNAMEsAt(answer, n) # {}, At(answer, n) \subseteq accepted'
        PROVE  \/ ~IsSubDomain(zone, step[n])
               \/ At(answer, step[n]) \subseteq accepted'
               \/ EqualFold(expect', step[n])
    <3>0. step[n] = answer[First(CNAMEsAt(answer, n))].target /\ step[n] \in Name
      <4>1. CNAMEsAt(answer, n) \in SUBSET Nat
        BY InputTypes DEF IInv, TypeOK, CNAMEsAt, At
      <4>2. First(CNAMEsAt(answer, n)) \in CNAMEsAt(answer, n)
        BY <2>2, <4>1, FirstIsLeast
      <4> QED BY <2>2, <4>2, InputTypes DEF IInv, TypeOK, step, NextInChain, CNAMEsAt, At
    <3>1. CASE At(answer, n) \subseteq accepted
      <4>1. CASE EqualFold(expect, step[n])
        BY <1>1, <3>0, <4>1, InputTypes, AtFold DEF IInv, TypeOK
      <4> QED BY <1>1, <2>2, <3>1, <4>1 DEF IInv, Complete
    <3>2. CASE EqualFold(n, expect)
      <4>1. CNAMEsAt(answer, n) = CNAMEsAt(answer, expect)
        BY <3>2, InputTypes, AtFold DEF IInv, TypeOK, CNAMEsAt
      <4>2. step[n] = expect'
        BY <1>1, <3>0, <4>1
      <4> QED BY <1>3, <4>2, EqualFoldReflexive
    <3> QED BY <1>1, <2>2, <3>1, <3>2, TakenName
  <2> QED BY <1>1, <1>2, <2>1, <2>2 DEF Complete
<1> QED BY <1>1, <1>4, <1>6, <1>7 DEF IInv

-----------------------------------------------------------------------------
LEMMA NextIInv == IInv /\ [Next]_vars => IInv'
<1> SUFFICES ASSUME IInv, [Next]_vars PROVE IInv'
  OBVIOUS
<1>1. CASE UNCHANGED vars
  BY <1>1 DEF vars, IInv, TypeOK, OnlyTrusted, WholeOwners, Sound, Complete,
              answer, zone, Names, step, reached
<1>2. CASE LeaveZone \/ NoMatch
  BY <1>2, LeaveIInv
<1>3. CASE ChainEnd
  BY <1>3, ChainEndIInv
<1>4. CASE ChainStep
  BY <1>4, ChainStepIInv
<1> QED BY <1>1, <1>2, <1>3, <1>4 DEF Next

(* When the loop is left, the records taken are those of the closed form.  *)
LEMMA IInvComputesChain == IInv => ComputesChain
<1> SUFFICES ASSUME IInv, done PROVE accepted = UNION {At(answer, n) : n \in reached}
  BY DEF ComputesChain, AnswerPositions, reached, step, Names, zone
<1> DEFINE S == {n \in Names : At(answer, n) \subseteq accepted}
<1>1. input.name \in Names => input.name \in S
  <2>1. CASE EqualFold(expect, input.name) /\ input.name \in Names
    <3>1. IsSubDomain(zone, expect)
      BY <2>1, InputTypes, EqualFoldSymmetric, SubDomainFold DEF IInv, TypeOK, Names, ChainNames
    <3>2. At(answer, expect) = At(answer, input.name)
      BY <2>1, InputTypes, AtFold DEF IInv, TypeOK
    <3> QED BY <2>1, <3>1, <3>2 DEF IInv, Complete
  <2> QED BY <2>1 DEF IInv, Complete
<1>2. ASSUME NEW n \in S \cap DOMAIN step, step[n] \in Names PROVE step[n] \in S
  <2>1. n \in Names /\ CNAMEsAt(answer, n) # {} /\ At(answer, n) \subseteq accepted
    BY <1>2 DEF step, NextInChain
  <2>2. IsSubDomain(zone, step[n]) /\ step[n] \in Name
    BY <1>2, InputTypes DEF IInv, TypeOK, Names, ChainNames
  <2>3. CASE EqualFold(expect, step[n])
    <3>1. IsSubDomain(zone, expect)
      BY <2>2, <2>3, InputTypes, EqualFoldSymmetric, SubDomainFold DEF IInv, TypeOK
    <3>2. At(answer, expect) = At(answer, step[n])
      BY <2>2, <2>3, InputTypes, AtFold DEF IInv, TypeOK
    <3> QED BY <1>2, <3>1, <3>2 DEF IInv, Complete
  <2> QED BY <1>2, <2>1, <2>2, <2>3 DEF IInv, Complete
<1>3. reached \subseteq S
  <2>1. S \in SUBSET Names
    OBVIOUS
  <2> HIDE DEF S
  <2>2. \A n \in S \cap DOMAIN step : step[n] \in Names => step[n] \in S
    BY <1>2
  <2> QED BY <1>1, <2>1, <2>2, OrbitLeast DEF reached
<1> QED BY <1>3 DEF IInv, Sound

-----------------------------------------------------------------------------
(* In a section that is reordered, a name has the same records, and the    *)
(* one CNAME of a name is its first one wherever it stands.                *)
LEMMA ReorderedRecords ==
    ASSUME NEW s, NEW p \in Bijection(DOMAIN s, DOMAIN s)
    PROVE  LET r == [i \in DOMAIN s |-> s[p[i]]]
           IN  /\ \A i \in DOMAIN s : p[i] \in DOMAIN s
               /\ \A j \in DOMAIN s : \E i \in DOMAIN s : p[i] = j
               /\ \A n : At(r, n) = {i \in DOMAIN s : p[i] \in At(s, n)}
               /\ \A t : OfType(r, t) = {i \in DOMAIN s : p[i] \in OfType(s, t)}
               /\ \A n : CNAMEsAt(r, n) = {i \in DOMAIN s : p[i] \in CNAMEsAt(s, n)}
BY DEF Bijection, Surjection, Injection, At, OfType, CNAMEsAt

LEMMA ReorderedChain ==
    ASSUME NEW s, IsSection(s), NEW z, NEW n \in Name,
           \A i, j \in OfType(s, "CNAME") : EqualFold(s[i].owner, s[j].owner) => i = j,
           NEW p \in Bijection(DOMAIN s, DOMAIN s)
    PROVE  AnswerPositions(z, n, [i \in DOMAIN s |-> s[p[i]]])
                = {i \in DOMAIN s : p[i] \in AnswerPositions(z, n, s)}
<1> DEFINE r == [i \in DOMAIN s |-> s[p[i]]]
           M == ChainNames(z, n, s)
<1>1. /\ \A i \in DOMAIN s : p[i] \in DOMAIN s
      /\ \A j \in DOMAIN s : \E i \in DOMAIN s : p[i] = j
      /\ \A m : At(r, m) = {i \in DOMAIN s : p[i] \in At(s, m)}
      /\ \A t : OfType(r, t) = {i \in DOMAIN s : p[i] \in OfType(s, t)}
      /\ \A m : CNAMEsAt(r, m) = {i \in DOMAIN s : p[i] \in CNAMEsAt(s, m)}
  BY ReorderedRecords
<1>2. \A i \in DOMAIN s : r[i] = s[p[i]]
  OBVIOUS
<1>3. \A m : CNAMEsAt(s, m) \in SUBSET DOMAIN s /\ OfType(s, m) \in SUBSET DOMAIN s
  BY DEF CNAMEsAt, OfType, At
<1>4. DOMAIN r = DOMAIN s /\ DOMAIN s \in SUBSET Nat
  BY DEF IsSection
<1> HIDE DEF r
<1>5. {r[i].target : i \in OfType(r, "CNAME")} = {s[i].target : i \in OfType(s, "CNAME")}
  <2>1. ASSUME NEW i \in OfType(r, "CNAME")
        PROVE  p[i] \in OfType(s, "CNAME") /\ r[i].target = s[p[i]].target
    BY <1>1, <1>2
  <2>2. ASSUME NEW j \in OfType(s, "CNAME")
        PROVE  \E i \in OfType(r, "CNAME") : r[i].target = s[j].target
    <3>1. PICK i \in DOMAIN s : p[i] = j
      BY <1>1, <1>3
    <3> QED BY <1>1, <1>2, <3>1
  <2> QED BY <2>1, <2>2
<1>6. ChainNames(z, n, r) = M
  BY <1>5 DEF ChainNames
<1>7. M \subseteq Name
  BY DEF ChainNames, IsSection, RR, OfType
<1> HIDE DEF M
<1>8. ASSUME NEW m \in M, CNAMEsAt(s, m) # {}
      PROVE  /\ CNAMEsAt(r, m) # {}
             /\ r[First(CNAMEsAt(r, m))].target = s[First(CNAMEsAt(s, m))].target
  <2>1. CNAMEsAt(r, m) # {} /\ CNAMEsAt(r, m) \in SUBSET Nat
    BY <1>1, <1>3, <1>4, <1>8
  <2>2. First(CNAMEsAt(r, m)) \in CNAMEsAt(r, m)
    BY <2>1, FirstIsLeast
  <2>3. First(CNAMEsAt(s, m)) \in CNAMEsAt(s, m)
    BY <1>3, <1>4, <1>8, FirstIsLeast
  <2>4. p[First(CNAMEsAt(r, m))] \in CNAMEsAt(s, m)
    BY <1>1, <2>2
  <2>5. \A i, j \in CNAMEsAt(s, m) : i = j
    <3>1. ASSUME NEW i \in CNAMEsAt(s, m), NEW j \in CNAMEsAt(s, m) PROVE i = j
      <4>1. /\ i \in OfType(s, "CNAME") /\ j \in OfType(s, "CNAME")
            /\ EqualFold(s[i].owner, m) /\ EqualFold(s[j].owner, m)
            /\ s[i].owner \in Name /\ s[j].owner \in Name
        BY <3>1 DEF CNAMEsAt, At, IsSection, RR
      <4>2. EqualFold(s[i].owner, s[j].owner)
        BY <1>7, <4>1, EqualFoldSymmetric, EqualFoldTransitive
      <4> QED BY <4>1, <4>2
    <3> QED BY <3>1
  <2>6. First(CNAMEsAt(r, m)) \in DOMAIN s
    BY <1>1, <2>2
  <2>7. r[First(CNAMEsAt(r, m))] = s[p[First(CNAMEsAt(r, m))]]
    BY <1>2, <2>6
  <2> QED BY <2>1, <2>3, <2>4, <2>5, <2>7
<1>9. ASSUME NEW m \in M, CNAMEsAt(s, m) = {} PROVE CNAMEsAt(r, m) = {}
  BY <1>1, <1>9
<1>10. NextInChain(r, M) = NextInChain(s, M)
  <2>1. {m \in M : CNAMEsAt(r, m) # {}} = {m \in M : CNAMEsAt(s, m) # {}}
    BY <1>8, <1>9
  <2>2. \A m \in {k \in M : CNAMEsAt(s, k) # {}} :
            r[First(CNAMEsAt(r, m))].target = s[First(CNAMEsAt(s, m))].target
    BY <1>8
  <2> QED BY <2>1, <2>2 DEF NextInChain
<1> DEFINE O == Orbit(n, NextInChain(s, M), M)
<1>11. /\ AnswerPositions(z, n, r) = UNION {At(r, m) : m \in O}
       /\ AnswerPositions(z, n, s) = UNION {At(s, m) : m \in O}
  BY <1>6, <1>10 DEF AnswerPositions, M
<1> HIDE DEF O
<1>12. AnswerPositions(z, n, r) = {i \in DOMAIN s : p[i] \in AnswerPositions(z, n, s)}
  BY <1>1, <1>11
<1> QED BY <1>12 DEF r

-----------------------------------------------------------------------------
(* A walk of unresolvedCNAMETarget ends at one name at most.               *)
LEMMA OneTarget ==
    ASSUME NEW s, NEW n, NEW t,
           NEW a \in UnresolvedCNAMETarget(s, n, t),
           NEW b \in UnresolvedCNAMETarget(s, n, t)
    PROVE  a = b
<1> DEFINE W == {n} \cup {s[i].target : i \in OfType(s, "CNAME")}
           c == ContinuesAt(s, t, W)
<1>1. /\ a \in Orbit(n, c, W) /\ At(s, a) = {}
      /\ b \in Orbit(n, c, W) /\ At(s, b) = {}
  BY DEF UnresolvedCNAMETarget
<1>2. a \notin DOMAIN c /\ b \notin DOMAIN c
  BY <1>1 DEF ContinuesAt, CNAMEsAt
<1> HIDE DEF c, W
<1> QED BY <1>1, <1>2, OrbitOneEnd

(* While no name has two CNAMEs, the walk over the records kept goes along *)
(* the chain, and off it only to leave the zone.                           *)
LEMMA WalkFollowsChain ==
    ASSUME IInv, done, SingleCNAMEs, NEW t,
           NEW n \in UnresolvedCNAMETarget(Keep(answer, accepted), input.name, t)
    PROVE  n \in reached \/ ~IsSubDomain(zone, n)
<1> DEFINE s == Keep(answer, accepted)
           W == {input.name} \cup {s[i].target : i \in OfType(s, "CNAME")}
           c == ContinuesAt(s, t, W)
           S == {m \in W : m \in reached \/ ~IsSubDomain(zone, m)}
<1>1. /\ accepted \in SUBSET DOMAIN answer
      /\ accepted = UNION {At(answer, m) : m \in reached}
      /\ \A i \in accepted : IsSubDomain(zone, answer[i].owner)
  <2>1. accepted = UNION {At(answer, m) : m \in reached}
    BY IInvComputesChain
       DEF ComputesChain, AnswerPositions, reached, step, Names, zone
  <2> QED BY <2>1 DEF IInv, TypeOK, OnlyTrusted, zone
<1>2. DOMAIN s = accepted /\ \A i \in accepted : s[i] = answer[i]
  BY DEF Keep
<1>3. /\ zone \in Name /\ input.name \in Name /\ Names \subseteq Name
      /\ \A i \in DOMAIN answer :
            /\ i \in Nat
            /\ answer[i].owner \in Name
            /\ answer[i].target \in Name
  BY InputTypes DEF IInv, TypeOK
<1> HIDE DEF s
<1>4. /\ \A t1 : OfType(s, t1) = accepted \cap OfType(answer, t1)
      /\ \A m : At(s, m) = accepted \cap At(answer, m)
      /\ \A m : CNAMEsAt(s, m) = accepted \cap CNAMEsAt(answer, m)
  BY <1>1, <1>2 DEF OfType, At, CNAMEsAt
<1>5. W \subseteq Name
  BY <1>1, <1>2, <1>3, <1>4 DEF OfType
<1>6. n \in Orbit(input.name, c, W)
  BY DEF UnresolvedCNAMETarget, s
<1>7. input.name \in W => input.name \in S
  <2>1. IsSubDomain(zone, input.name) => input.name \in Names
    BY DEF Names, ChainNames
  <2> QED BY <2>1, OrbitStart DEF reached
<1>8. ASSUME NEW k \in S \cap DOMAIN c, c[k] \in W PROVE c[k] \in S
  <2> DEFINE j == Last(CNAMEsAt(s, k))
             tgt == answer[j].target
  <2>1. k \in W /\ CNAMEsAt(s, k) # {} /\ c[k] = s[j].target
    BY <1>8 DEF ContinuesAt
  <2>2. PICK i \in accepted : i \in CNAMEsAt(answer, k)
    BY <1>4, <2>1
  <2>3. /\ i \in OfType(answer, "CNAME") /\ EqualFold(answer[i].owner, k)
        /\ i \in DOMAIN answer /\ answer[i].owner \in Name /\ k \in Name
    BY <1>3, <1>5, <2>1, <2>2 DEF CNAMEsAt, At
  <2>4. IsSubDomain(zone, k)
    BY <1>1, <1>3, <2>2, <2>3, SubDomainFold
  <2>5. k \in reached /\ k \in Names
    BY <1>8, <2>4 DEF reached, Orbit
  <2>6. \A m \in CNAMEsAt(answer, k) : m = i
    <3> SUFFICES ASSUME NEW m \in CNAMEsAt(answer, k) PROVE m = i
      OBVIOUS
    <3>1. /\ m \in OfType(answer, "CNAME") /\ EqualFold(answer[m].owner, k)
          /\ answer[m].owner \in Name
      BY <1>3 DEF CNAMEsAt, At
    <3>2. EqualFold(answer[m].owner, answer[i].owner)
      BY <2>3, <3>1, EqualFoldSymmetric, EqualFoldTransitive
    <3> QED BY <2>3, <3>1, <3>2 DEF SingleCNAMEs
  <2>7. CNAMEsAt(answer, k) = {i} /\ CNAMEsAt(s, k) = {i}
    BY <1>4, <2>2, <2>6
  <2>8. j = i /\ First(CNAMEsAt(answer, k)) = i
    BY <1>3, <2>3, <2>7 DEF First, Last
  <2>9. c[k] = answer[i].target
    BY <1>2, <2>1, <2>2, <2>8
  <2>10. k \in DOMAIN step /\ step[k] = c[k]
    BY <2>5, <2>7, <2>8, <2>9 DEF step, NextInChain
  <2>11. IsSubDomain(zone, c[k]) => c[k] \in Names
    BY <2>3, <2>9 DEF Names, ChainNames
  <2>12. IsSubDomain(zone, c[k]) => c[k] \in reached
    BY <2>5, <2>10, <2>11, OrbitStep DEF reached
  <2> QED BY <1>8, <2>12
<1>9. S \in SUBSET W
  OBVIOUS
<1>10. Orbit(input.name, c, W) \subseteq S
  <2> HIDE DEF S, c, W
  <2> QED BY <1>7, <1>8, <1>9, OrbitLeast
<1> QED BY <1>6, <1>10

LEMMA LoopInvariance == Spec => []IInv
BY InitIInv, NextIInv, PTL DEF Spec

(* The loop expects a name, and takes positions of the answer section.     *)
THEOREM LoopTypeOK == Spec => []TypeOK
<1>1. IInv => TypeOK
  BY DEF IInv
<1> QED BY <1>1, LoopInvariance, PTL

(* The loop takes only records whose owner lies in the zone, whatever the  *)
(* chain of the answer section leads to (helper.go:259-287).               *)
THEOREM LoopOnlyTrusted == Spec => []OnlyTrusted
<1>1. IInv => OnlyTrusted
  BY DEF IInv
<1> QED BY <1>1, LoopInvariance, PTL

(* For every zone, name and answer section, what the loop has taken when   *)
(* it is left are exactly the records of the in-zone CNAME chain           *)
(* (helper.go:259-287).                                                    *)
THEOREM LoopComputesChain == Spec => []ComputesChain
BY IInvComputesChain, LoopInvariance, PTL

(* The order a server gives its records in does not matter to what is      *)
(* taken, unless a name has several CNAMEs: filterInBailiwick looks for    *)
(* each name among all that remains (helper.go:259-287).                   *)
THEOREM LoopOrderIrrelevant == Spec => []OrderIrrelevant
<1>1. IInv => OrderIrrelevant
  <2> SUFFICES ASSUME IInv, done, SingleCNAMEs,
                      NEW p \in Bijection(DOMAIN answer, DOMAIN answer)
               PROVE  AnswerPositions(input.zone, input.name,
                                      [i \in DOMAIN answer |-> answer[p[i]]])
                        = {i \in DOMAIN answer : p[i] \in accepted}
    BY DEF OrderIrrelevant
  <2>1. accepted = AnswerPositions(input.zone, input.name, answer)
    BY IInvComputesChain DEF ComputesChain
  <2>2. input.name \in Name /\ IsSection(answer)
    BY InputTypes DEF IInv, TypeOK
  <2> QED BY <2>1, <2>2, ReorderedChain DEF SingleCNAMEs
<1> QED BY <1>1, LoopInvariance, PTL

-----------------------------------------------------------------------------
(* The walk.  Stops are the names it may come to, Ahead(n) those it comes  *)
(* to from n, and Used(n) the CNAMEs that take it there: one for each name,*)
(* while it has hops left for all of them.                                 *)
Stops == {input.name} \cup {kept[i].target : i \in OfType(kept, "CNAME")}
continues == ContinuesAt(kept, qtype, Stops)
Ahead(n) == Orbit(n, continues, Stops)
Used(n) == {Last(CNAMEsAt(kept, m)) : m \in Ahead(n) \cap DOMAIN continues}

(* If the walk ends anywhere, there are hops enough to get there.          *)
OnTheWay ==
    /\ current \in Ahead(input.name)
    /\ \A e \in Ahead(input.name) \ DOMAIN continues :
            hops + Cardinality(Used(current)) <= Cardinality(accepted)

WalkIInv == /\ WalkTypeOK
            /\ WalkFindsTarget
            /\ returned => done
            /\ IF hops = 0
               THEN current = input.name
               ELSE done /\ At(kept, input.name) # {} /\ OnTheWay

-----------------------------------------------------------------------------
LEMMA KeptTypes ==
    ASSUME IInv, WalkTypeOK
    PROVE  /\ IsFiniteSet(accepted)
           /\ Cardinality(accepted) \in Nat
           /\ IsSection(kept)
           /\ DOMAIN kept = accepted
           /\ Stops \subseteq Name
           /\ input.name \in Stops
           /\ \A n : CNAMEsAt(kept, n) \in SUBSET accepted
<1>1. IsSection(answer) /\ accepted \in SUBSET DOMAIN answer
  BY InputTypes DEF IInv, TypeOK
<1>2. IsSection(kept) /\ DOMAIN kept = accepted
  BY <1>1, KeepSection DEF kept, Keep
<1>3. IsFiniteSet(accepted)
  BY <1>2 DEF IsSection
<1>4. Stops \subseteq Name
  BY <1>2, InputTypes DEF IInv, TypeOK, Stops, IsSection, RR, OfType
<1>5. \A n : CNAMEsAt(kept, n) \in SUBSET accepted
  BY <1>2 DEF CNAMEsAt, At
<1> QED BY <1>2, <1>3, <1>4, <1>5, FS_CardinalityType DEF Stops

(* A name that continues does so at its last CNAME.                        *)
LEMMA ContinuesFacts ==
    ASSUME IInv, WalkTypeOK, NEW n \in DOMAIN continues
    PROVE  /\ n \in Stops
           /\ CNAMEsAt(kept, n) # {}
           /\ Last(CNAMEsAt(kept, n)) \in CNAMEsAt(kept, n)
           /\ Last(CNAMEsAt(kept, n)) \in accepted
           /\ continues[n] = kept[Last(CNAMEsAt(kept, n))].target
           /\ continues[n] \in Stops
<1>1. /\ n \in Stops
      /\ CNAMEsAt(kept, n) # {}
      /\ continues[n] = kept[Last(CNAMEsAt(kept, n))].target
  BY DEF continues, ContinuesAt
<1>2. /\ CNAMEsAt(kept, n) \in SUBSET Nat
      /\ IsFiniteSet(CNAMEsAt(kept, n))
      /\ CNAMEsAt(kept, n) \in SUBSET accepted
  BY KeptTypes, FS_Subset DEF IsSection
<1>3. Last(CNAMEsAt(kept, n)) \in CNAMEsAt(kept, n)
  BY <1>1, <1>2, LastIsGreatest
<1>4. continues[n] \in Stops
  BY <1>1, <1>3 DEF Stops, CNAMEsAt
<1> QED BY <1>1, <1>2, <1>3, <1>4

LEMMA UsedFinite ==
    ASSUME IInv, WalkTypeOK, NEW n
    PROVE  /\ Used(n) \in SUBSET accepted
           /\ IsFiniteSet(Used(n))
           /\ Cardinality(Used(n)) \in Nat
           /\ Cardinality(Used(n)) <= Cardinality(accepted)
<1>1. Used(n) \in SUBSET accepted
  BY ContinuesFacts DEF Used
<1> QED BY <1>1, KeptTypes, FS_Subset, FS_CardinalityType

(* Before the first hop there are as many hops left as records.            *)
LEMMA SetsOut ==
    ASSUME IInv, WalkIInv
    PROVE  OnTheWay
<1>1. CASE hops = 0
  <2>1. current \in Ahead(input.name)
    BY <1>1, KeptTypes, OrbitStart DEF WalkIInv, Ahead
  <2>2. hops + Cardinality(Used(current)) <= Cardinality(accepted)
    BY <1>1, KeptTypes, UsedFinite DEF WalkIInv
  <2> QED BY <2>1, <2>2 DEF OnTheWay
<1>2. CASE hops # 0
  BY <1>2 DEF WalkIInv
<1> QED BY <1>1, <1>2

(* A hop uses a CNAME that no later hop of a walk that ends uses.          *)
LEMMA HopUses ==
    ASSUME IInv, WalkTypeOK, NEW m \in DOMAIN continues,
           NEW e \in Ahead(m), e \notin DOMAIN continues
    PROVE  Cardinality(Used(continues[m])) < Cardinality(Used(m))
<1> DEFINE p == Last(CNAMEsAt(kept, m))
<1>1. m \in Stops /\ continues[m] \in Stops /\ continues[m] = kept[p].target
  BY ContinuesFacts
<1>2. Ahead(continues[m]) \subseteq Ahead(m) /\ m \in Ahead(m)
  BY <1>1, OrbitUnfold, OrbitStart DEF Ahead
<1>3. Used(continues[m]) \subseteq Used(m)
  BY <1>2 DEF Used
<1>4. p \in Used(m)
  BY <1>2 DEF Used
<1>5. p \notin Used(continues[m])
  <2> SUFFICES ASSUME NEW x \in Ahead(continues[m]) \cap DOMAIN continues,
                      p = Last(CNAMEsAt(kept, x))
               PROVE  FALSE
    BY DEF Used
  <2>1. continues[x] = continues[m]
    BY <1>1, ContinuesFacts
  <2> QED BY <1>1, <2>1, OrbitNoReturn DEF Ahead
<1> QED BY <1>3, <1>4, <1>5, UsedFinite, FS_Subset, FS_CardinalityType

-----------------------------------------------------------------------------
(* The closed form's restart target is where the walk ends.                *)
LEMMA TargetsEnd ==
    ASSUME IInv, WalkTypeOK, qtype # "CNAME"
    PROVE  /\ UnresolvedCNAMETarget(kept, input.name, qtype)
                = {n \in Ahead(input.name) : n # input.name /\ At(kept, n) = {}}
           /\ \A n : At(kept, n) = {} => n \notin DOMAIN continues
BY DEF UnresolvedCNAMETarget, Ahead, continues, Stops, ContinuesAt, CNAMEsAt

(* The walk returns at a name where it cannot go on.                       *)
LEMMA EndOfWalk ==
    ASSUME IInv, WalkIInv, qtype # "CNAME", current \notin DOMAIN continues
    PROVE  UnresolvedCNAMETarget(kept, input.name, qtype)
                = IF At(kept, current) = {} /\ hops > 0 THEN {current} ELSE {}
<1> DEFINE targets == {n \in Ahead(input.name) : n # input.name /\ At(kept, n) = {}}
<1>1. /\ current \in Ahead(input.name)
      /\ WalkTypeOK
  BY SetsOut DEF OnTheWay, WalkIInv
<1>2. \A n \in targets : n = current
  BY <1>1, TargetsEnd, OrbitOneEnd DEF Ahead
<1>3. hops = 0 => current = input.name
  BY DEF WalkIInv
<1>4. hops > 0 => At(kept, input.name) # {}
  BY DEF WalkIInv, WalkTypeOK
<1>5. hops \in Nat
  BY <1>1, KeptTypes DEF WalkTypeOK
<1>6. targets = IF At(kept, current) = {} /\ hops > 0 THEN {current} ELSE {}
  BY <1>1, <1>2, <1>3, <1>4, <1>5
<1> QED BY <1>1, <1>6, TargetsEnd

LEMMA WalkReturns ==
    ASSUME IInv, WalkIInv, Walk, ~Hop
    PROVE  /\ target' = UnresolvedCNAMETarget(kept, input.name, qtype)
           /\ returned' = TRUE
           /\ done
           /\ UNCHANGED <<qtype, current, hops>>
           /\ target' \in SUBSET Name
<1> DEFINE T == UnresolvedCNAMETarget(kept, input.name, qtype)
<1>0. /\ returned' = TRUE
      /\ done
      /\ UNCHANGED <<qtype, current, hops>>
      /\ WalkTypeOK
  BY DEF Walk, NotChased, ChainCut, Answered, NotContinued, GivesUp, Turn, Called, Return,
         WalkIInv
<1>1. CASE NotChased
  <2>1. qtype = "CNAME" /\ target' = {}
    BY <1>1 DEF NotChased, Return
  <2>2. T = {}
    BY <2>1 DEF UnresolvedCNAMETarget
  <2> QED BY <1>0, <2>1, <2>2
<1>2. CASE ChainCut
  <2>1. /\ qtype # "CNAME"
        /\ At(kept, current) = {}
        /\ target' = IF hops > 0 THEN {current} ELSE {}
    BY <1>2 DEF ChainCut, Turn, Return
  <2>2. current \notin DOMAIN continues
    BY <1>0, <2>1, TargetsEnd
  <2>3. current \in Name
    BY <1>0 DEF WalkTypeOK
  <2> QED BY <1>0, <2>1, <2>2, <2>3, EndOfWalk
<1>3. CASE Answered \/ NotContinued
  <2>1. /\ qtype # "CNAME"
        /\ At(kept, current) # {}
        /\ \/ At(kept, current) \cap OfType(kept, qtype) # {}
           \/ CNAMEsAt(kept, current) = {}
        /\ target' = {}
    BY <1>3 DEF Answered, NotContinued, Turn, Return
  <2>2. current \notin DOMAIN continues
    BY <2>1 DEF continues, ContinuesAt
  <2> QED BY <1>0, <2>1, <2>2, EndOfWalk
<1>4. CASE GivesUp
  <2>1. qtype # "CNAME" /\ hops > Cardinality(accepted) /\ target' = {}
    BY <1>0, <1>4, KeptTypes DEF GivesUp, WithinHops, Return, WalkTypeOK
  <2>2. \A e \in Ahead(input.name) : e \in DOMAIN continues
    <3> SUFFICES ASSUME NEW e \in Ahead(input.name) \ DOMAIN continues PROVE FALSE
      OBVIOUS
    <3>1. hops + Cardinality(Used(current)) <= Cardinality(accepted)
      BY SetsOut DEF OnTheWay
    <3>2. /\ Cardinality(Used(current)) \in Nat
          /\ Cardinality(accepted) \in Nat
          /\ hops \in Nat
      BY <1>0, KeptTypes, UsedFinite DEF WalkTypeOK
    <3> QED BY <2>1, <3>1, <3>2
  <2>3. T = {}
    BY <1>0, <2>1, <2>2, TargetsEnd
  <2> QED BY <1>0, <2>1, <2>3
<1> QED BY <1>0, <1>1, <1>2, <1>3, <1>4 DEF Walk

LEMMA HopOn ==
    ASSUME IInv, WalkIInv, Hop, UNCHANGED vars
    PROVE  WalkIInv'
<1>1. /\ done /\ ~returned /\ qtype # "CNAME" /\ hops <= Cardinality(accepted)
      /\ At(kept, current) \cap OfType(kept, qtype) = {}
      /\ CNAMEsAt(kept, current) # {}
      /\ current' = kept[Last(CNAMEsAt(kept, current))].target
      /\ hops' = hops + 1
      /\ UNCHANGED <<qtype, target, returned>>
  BY DEF Hop, Turn, Called, WithinHops
<1>2. UNCHANGED <<input, accepted, done, answer, kept, Stops, continues>>
  BY <1>1 DEF vars, answer, kept, Stops, continues
<1>3. WalkTypeOK /\ OnTheWay /\ hops \in Nat /\ Cardinality(accepted) \in Nat
  BY SetsOut, KeptTypes DEF WalkIInv, WalkTypeOK
<1>4. /\ current \in DOMAIN continues
      /\ current' = continues[current]
      /\ current' \in Stops
  <2>1. current \in DOMAIN continues
    BY <1>1, <1>3 DEF OnTheWay, Ahead, Orbit, continues, ContinuesAt
  <2> QED BY <1>1, <1>3, <2>1, ContinuesFacts
<1>5. WalkTypeOK'
  BY <1>1, <1>2, <1>3, <1>4, KeptTypes DEF WalkTypeOK
<1>6. current' \in Ahead(input.name)
  BY <1>3, <1>4, OrbitStep DEF OnTheWay, Ahead
<1>7. ASSUME NEW e \in Ahead(input.name) \ DOMAIN continues
      PROVE  hops + 1 + Cardinality(Used(current')) <= Cardinality(accepted)
  <2>1. e \in Ahead(current)
    BY <1>3, OrbitEnd DEF OnTheWay, Ahead
  <2>2. Cardinality(Used(current')) < Cardinality(Used(current))
    BY <1>3, <1>4, <2>1, HopUses
  <2>3. hops + Cardinality(Used(current)) <= Cardinality(accepted)
    BY <1>3 DEF OnTheWay
  <2>4. Cardinality(Used(current')) \in Nat /\ Cardinality(Used(current)) \in Nat
    BY <1>3, UsedFinite
  <2> QED BY <1>3, <2>2, <2>3, <2>4
<1>8. OnTheWay'
  BY <1>1, <1>2, <1>6, <1>7 DEF OnTheWay, Ahead, Used
<1>9. At(kept, input.name) # {}
  <2>1. CASE hops = 0
    BY <1>1, <2>1 DEF WalkIInv, CNAMEsAt
  <2>2. CASE hops # 0
    BY <2>2 DEF WalkIInv
  <2> QED BY <2>1, <2>2
<1> QED BY <1>1, <1>2, <1>3, <1>5, <1>8, <1>9 DEF WalkIInv, WalkFindsTarget

-----------------------------------------------------------------------------
LEMMA WalkInitIInv == WalkInit => IInv /\ WalkIInv
<1> SUFFICES ASSUME WalkInit PROVE WalkIInv
  BY InitIInv DEF WalkInit
<1>1. IInv
  BY InitIInv DEF WalkInit
<1>2. accepted = {} /\ Cardinality(accepted) = 0
  BY FS_EmptySet DEF WalkInit, Init
<1>3. WalkTypeOK
  <2>1. input.name \in Name
    BY <1>1, InputTypes DEF IInv, TypeOK
  <2>2. hops \in 0..Cardinality(accepted) + 1
    BY <1>2 DEF WalkInit
  <2> QED BY <2>1, <2>2 DEF WalkInit, WalkTypeOK
<1> QED BY <1>3 DEF WalkInit, WalkIInv, WalkFindsTarget

LEMMA WalkNextIInv == IInv /\ WalkIInv /\ [WalkNext]_allVars => WalkIInv'
<1> SUFFICES ASSUME IInv, WalkIInv, [WalkNext]_allVars PROVE WalkIInv'
  OBVIOUS
<1>1. CASE Next /\ UNCHANGED walkVars
  <2>1. ~done /\ hops = 0 /\ ~returned
    BY <1>1 DEF Next, LeaveZone, NoMatch, ChainEnd, ChainStep, Take, WalkIInv
  <2>2. UNCHANGED <<qtype, current, hops, target, returned, input>>
    BY <1>1 DEF walkVars, Next, LeaveZone, NoMatch, ChainEnd, ChainStep, Take
  <2>3. IInv'
    BY <1>1, NextIInv
  <2>4. Cardinality(accepted') \in Nat
    <3>1. IsSection(answer) /\ answer' = answer
      BY <2>2, InputTypes DEF IInv, TypeOK, answer
    <3>2. accepted' \in SUBSET DOMAIN answer
      BY <2>3, <3>1 DEF IInv, TypeOK
    <3> QED BY <3>1, <3>2, FS_Subset, FS_CardinalityType DEF IsSection
  <2>5. WalkTypeOK'
    BY <2>1, <2>2, <2>4 DEF WalkIInv, WalkTypeOK
  <2> QED BY <2>1, <2>2, <2>5 DEF WalkIInv, WalkFindsTarget
<1>2. CASE Hop /\ UNCHANGED vars
  BY <1>2, HopOn
<1>3. CASE Walk /\ ~Hop /\ UNCHANGED vars
  <2>1. /\ target' = UnresolvedCNAMETarget(kept, input.name, qtype)
        /\ returned' = TRUE
        /\ done
        /\ UNCHANGED <<qtype, current, hops>>
        /\ target' \in SUBSET Name
    BY <1>3, WalkReturns
  <2>2. UNCHANGED <<input, accepted, done, answer, kept, Stops, continues>>
    BY <1>3, <2>1 DEF vars, answer, kept, Stops, continues
  <2>3. WalkTypeOK'
    BY <2>1, <2>2 DEF WalkIInv, WalkTypeOK
  <2>4. OnTheWay => OnTheWay'
    BY <2>1, <2>2 DEF OnTheWay, Ahead, Used
  <2> QED BY <2>1, <2>2, <2>3, <2>4 DEF WalkIInv, WalkFindsTarget
<1>4. CASE UNCHANGED allVars
  <2>1. UNCHANGED <<qtype, current, hops, target, returned, input, accepted, done, answer,
                    kept, Stops, continues>>
    BY <1>4 DEF allVars, walkVars, vars, answer, kept, Stops, continues
  <2>2. OnTheWay => OnTheWay'
    BY <2>1 DEF OnTheWay, Ahead, Used
  <2> QED BY <2>1, <2>2 DEF WalkIInv, WalkTypeOK, WalkFindsTarget
<1> QED BY <1>1, <1>2, <1>3, <1>4 DEF WalkNext

(* Until it has returned, the loop of the filter is all that goes on.      *)
THEOREM WalkImplementsLoop == WalkSpec => Spec
<1>1. WalkInit => Init
  BY DEF WalkInit
<1>2. [WalkNext]_allVars => [Next]_vars
  BY DEF WalkNext, allVars
<1> QED BY <1>1, <1>2, PTL DEF WalkSpec, Spec

LEMMA WalkInvariance == WalkSpec => [](IInv /\ WalkIInv)
<1>1. IInv /\ WalkIInv /\ [WalkNext]_allVars => IInv' /\ WalkIInv'
  <2>1. [WalkNext]_allVars => [Next]_vars
    BY DEF WalkNext, allVars
  <2> QED BY <2>1, NextIInv, WalkNextIInv
<1> QED BY <1>1, WalkInitIInv, PTL DEF WalkSpec

(* The walk of unresolvedCNAMETarget, which gives up after as many hops as *)
(* there are records, finds the restart target that the least fixed point  *)
(* over all names has: its bound cuts off nothing but walks that would     *)
(* never end (recursive.go:245-275).                                       *)
THEOREM BoundedWalkFindsTarget == WalkSpec => []WalkFindsTarget
<1>1. WalkIInv => WalkFindsTarget
  BY DEF WalkIInv
<1> QED BY <1>1, WalkInvariance, PTL

(* Resolution restarts at one name at most, and with one CNAME for each    *)
(* name only where the server had no say or said nothing: the records of   *)
(* the chain that filterInBailiwick keeps are all that                     *)
(* unresolvedCNAMETarget looks for (recursive.go:245-275).                 *)
THEOREM LoopRestartsOnlyIfCut == WalkSpec => []RestartOnlyIfCut
<1>1. IInv /\ WalkIInv => RestartOnlyIfCut
  <2> SUFFICES ASSUME IInv, WalkIInv, returned
               PROVE  /\ Cardinality(target) <= 1
                      /\ SingleCNAMEs => \A n \in target :
                            ~IsSubDomain(input.zone, n) \/ At(answer, n) = {}
    BY DEF RestartOnlyIfCut
  <2>0. done /\ target = UnresolvedCNAMETarget(kept, input.name, qtype)
    BY DEF WalkIInv, WalkFindsTarget
  <2>1. Cardinality(target) <= 1
    <3>1. CASE target = {}
      BY <3>1, FS_EmptySet
    <3>2. CASE target # {}
      <4>1. PICK a \in target : TRUE
        BY <3>2
      <4>2. target = {a}
        BY <2>0, <4>1, OneTarget
      <4> QED BY <4>2, FS_Singleton
    <3> QED BY <3>1, <3>2
  <2>2. ASSUME SingleCNAMEs, NEW n \in target, IsSubDomain(zone, n)
        PROVE  At(answer, n) = {}
    <3>1. n \in reached
      BY <2>0, <2>2, WalkFollowsChain DEF kept
    <3>2. At(answer, n) \subseteq accepted
      BY <2>0, <3>1, IInvComputesChain
         DEF ComputesChain, AnswerPositions, reached, step, Names, zone
    <3>3. At(kept, n) = {}
      BY <2>0 DEF UnresolvedCNAMETarget
    <3> QED BY <3>2, <3>3 DEF At, Keep, kept
  <2> QED BY <2>1, <2>2 DEF zone
<1> QED BY <1>1, WalkInvariance, PTL

LEMMA TurnsLeftType ==
    ASSUME IInv, WalkIInv
    PROVE  /\ TurnsLeft \in Measures(4)
           /\ IsFiniteSet(remaining)
<1>1. IsFiniteSet(remaining) /\ Cardinality(remaining) \in Nat
  <2>1. IsSection(answer) /\ remaining \in SUBSET DOMAIN answer
    BY InputTypes DEF IInv, TypeOK
  <2> QED BY <2>1, FS_Subset, FS_CardinalityType DEF IsSection
<1>2. Cardinality(accepted) + 1 - hops \in Nat
  BY KeptTypes DEF WalkIInv, WalkTypeOK
<1>3. AsLongAs(~done) \in Nat /\ AsLongAs(~returned) \in Nat
  BY DEF AsLongAs
<1> QED BY <1>1, <1>2, <1>3 DEF TurnsLeft, Measures

LEMMA TurnLowers ==
    ASSUME IInv, WalkIInv, WalkNext
    PROVE  Below(TurnsLeft', TurnsLeft)
<1> USE DEF AsLongAs
<1>1. CASE LeaveZone \/ NoMatch \/ ChainEnd
  <2>1. ~done /\ done'
    BY <1>1 DEF LeaveZone, NoMatch, ChainEnd, Take
  <2> QED BY <2>1, FourBelow DEF TurnsLeft
<1>2. CASE ChainStep
  <2>1. ~done /\ ~done' /\ Matched # {} /\ remaining' = remaining \ Matched
    BY <1>2 DEF ChainStep, Take
  <2>2. remaining' \in SUBSET remaining /\ remaining' # remaining
    BY <2>1 DEF Matched
  <2>3. Cardinality(remaining') < Cardinality(remaining)
    BY <2>2, TurnsLeftType, FS_Subset, FS_CardinalityType
  <2> QED BY <2>1, <2>3, FourBelow DEF TurnsLeft
<1>3. CASE Walk /\ UNCHANGED vars
  <2>1. UNCHANGED <<done, remaining, accepted>> /\ ~returned
    BY <1>3 DEF vars, Walk, NotChased, ChainCut, Answered, NotContinued, Hop, GivesUp, Turn,
                Called
  <2>2. CASE Hop
    <3>1. returned' = returned /\ hops' = hops + 1
      BY <2>2 DEF Hop
    <3>2. Cardinality(accepted') + 1 - hops' < Cardinality(accepted) + 1 - hops
      BY <2>1, <3>1, KeptTypes DEF WalkIInv, WalkTypeOK
    <3> QED BY <2>1, <3>1, <3>2, FourBelow DEF TurnsLeft
  <2>3. CASE ~Hop
    <3>1. returned'
      BY <1>3, <2>3 DEF Walk, NotChased, ChainCut, Answered, NotContinued, GivesUp, Return
    <3> QED BY <2>1, <3>1, FourBelow DEF TurnsLeft
  <2> QED BY <2>2, <2>3
<1> QED BY <1>1, <1>2, <1>3 DEF WalkNext, Next

(* Neither the loop of filterInBailiwick nor the walk can be kept going by *)
(* CNAMEs that cycle, however many: each turn lowers a measure             *)
(* (helper.go:261-287, recursive.go:251-273).                              *)
THEOREM LoopsRunDown == WalkSpec => EveryTurnTakes
<1>1. IInv /\ WalkIInv /\ [WalkNext]_allVars /\ (IInv /\ WalkIInv)'
        => [TurnsLeft' \in Measures(4) /\ Below(TurnsLeft', TurnsLeft)]_allVars
  <2>1. (IInv /\ WalkIInv)' => (TurnsLeft \in Measures(4))'
    BY TurnsLeftType, PTL
  <2> QED BY <2>1, TurnLowers
<1> QED BY <1>1, WalkInvariance, PTL DEF WalkSpec, EveryTurnTakes
=============================================================================
