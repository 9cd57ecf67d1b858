---------------------------- MODULE RecordFacts ----------------------------
(***************************************************************************)
(* Facts about positions, names, orbits and measures that the proofs of    *)
(* the other modules rest on.                                              *)
(***************************************************************************)
EXTENDS Records, Variant, FiniteSetTheorems, WellFoundedInduction, TLAPS

-----------------------------------------------------------------------------
(* Positions: a nonempty set of them has a first one.  The intervals 1..i  *)
(* are finite sets, on which strict inclusion is well founded.             *)
LEMMA LeastElement ==
    ASSUME NEW I \in SUBSET Nat, I # {}
    PROVE  \E i \in I : \A j \in I : i <= j
<1> DEFINE T == {1..i : i \in I}
<1>1. T \subseteq FiniteSubsetsOf(Nat)
  BY FS_Interval DEF FiniteSubsetsOf
<1>2. \E x \in T : \A y \in T : <<y, x>> \notin StrictSubsetOrdering(Nat)
  <2>1. T # {}
    OBVIOUS
  <2> QED BY <1>1, <2>1, FS_StrictSubsetOrderingWellFounded, WFMin
<1>3. PICK i \in I : \A j \in I : <<1..j, 1..i>> \notin StrictSubsetOrdering(Nat)
  BY <1>2
<1>4. ASSUME NEW j \in I, ~(i <= j) PROVE FALSE
  <2>1. 1..j \subseteq 1..i /\ i \in 1..i /\ i \notin 1..j
    BY <1>4
  <2>2. /\ (1..j) \in SUBSET Nat
        /\ (1..i) \in SUBSET Nat
        /\ (1..j) # (1..i)
    BY <2>1
  <2>3. <<1..j, 1..i>> \in StrictSubsetOrdering(Nat)
    BY <2>1, <2>2 DEF StrictSubsetOrdering
  <2> QED BY <1>3, <2>3
<1> QED BY <1>4

(* First(I) is a member of I, and no other is smaller.                     *)
LEMMA FirstIsLeast ==
    ASSUME NEW I \in SUBSET Nat, I # {}
    PROVE  /\ First(I) \in I
           /\ \A j \in I : First(I) <= j
BY LeastElement DEF First

(* A finite set of positions has a last one: the positions after i are     *)
(* fewest there.                                                           *)
LEMMA LastIsGreatest ==
    ASSUME NEW I \in SUBSET Nat, IsFiniteSet(I), I # {}
    PROVE  /\ Last(I) \in I
           /\ \A j \in I : j <= Last(I)
<1> DEFINE After(i) == {j \in I : i < j}
           T == {After(i) : i \in I}
<1>1. T \subseteq FiniteSubsetsOf(Nat)
  BY FS_Subset DEF FiniteSubsetsOf
<1>2. \E x \in T : \A y \in T : <<y, x>> \notin StrictSubsetOrdering(Nat)
  <2>1. T # {}
    OBVIOUS
  <2> QED BY <1>1, <2>1, FS_StrictSubsetOrderingWellFounded, WFMin
<1>3. PICK i \in I : \A j \in I : <<After(j), After(i)>> \notin StrictSubsetOrdering(Nat)
  BY <1>2
<1>4. ASSUME NEW j \in I, ~(j <= i) PROVE FALSE
  <2>1. j \in Nat /\ i \in Nat /\ i < j /\ ~(j < j)
    BY <1>4
  <2>2. After(j) \subseteq After(i)
    <3> SUFFICES ASSUME NEW k \in I, j < k PROVE i < k
      OBVIOUS
    <3> QED BY <2>1
  <2>3. j \in After(i) /\ j \notin After(j)
    BY <2>1
  <2>4. After(j) \in SUBSET Nat /\ After(i) \in SUBSET Nat
    OBVIOUS
  <2> HIDE DEF After
  <2>5. <<After(j), After(i)>> \in StrictSubsetOrdering(Nat)
    BY <2>2, <2>3, <2>4 DEF StrictSubsetOrdering
  <2> QED BY <1>3, <2>5
<1>5. \E k \in I : \A j \in I : j <= k
  BY <1>4
<1> QED BY <1>5 DEF Last

-----------------------------------------------------------------------------
(* Sections: some positions of a section are a section of the same records,*)
(* and the smallest TTL in a section is one of its TTLs.                   *)
LEMMA KeepSection ==
    ASSUME NEW s, IsSection(s), NEW I \in SUBSET DOMAIN s
    PROVE  IsSection(Keep(s, I))
BY FS_Subset DEF IsSection, Keep

LEMMA NoRecordsSection == DOMAIN NoRecords = {} /\ IsSection(NoRecords)
BY FS_EmptySet DEF IsSection, NoRecords

LEMMA LeastTTL ==
    ASSUME NEW s, IsSection(s), DOMAIN s # {}
    PROVE  \E ttl \in {s[i].ttl : i \in DOMAIN s} :
                ttl \in Nat /\ \A i \in DOMAIN s : ttl <= s[i].ttl
<1> DEFINE ttls == {s[i].ttl : i \in DOMAIN s}
<1>1. ttls \in SUBSET Nat /\ ttls # {}
  BY MaxTTLAssumption DEF IsSection, RR, TTL
<1>2. PICK ttl \in ttls : \A x \in ttls : ttl <= x
  <2> HIDE DEF ttls
  <2> QED BY <1>1, LeastElement
<1> QED BY <1>1, <1>2

-----------------------------------------------------------------------------
(* EqualFold is an equivalence of names.                                   *)
LEMMA EqualFoldReflexive == \A n \in Name : EqualFold(n, n)
BY DEF EqualFold, Name

LEMMA EqualFoldSymmetric ==
    \A m, n \in Name : EqualFold(m, n) => EqualFold(n, m)
BY DEF EqualFold, Name

LEMMA EqualFoldTransitive ==
    \A m, n, k \in Name : EqualFold(m, n) /\ EqualFold(n, k) => EqualFold(m, k)
BY DEF EqualFold, Name

(* IsSubDomain orders names up to their spelling, shorter names first.     *)
LEMMA SubDomainReflexive == \A n \in Name : IsSubDomain(n, n)
BY DEF IsSubDomain, Name

LEMMA SubDomainTransitive ==
    \A m, n, k \in Name : IsSubDomain(m, n) /\ IsSubDomain(n, k) => IsSubDomain(m, k)
BY DEF IsSubDomain, Name

LEMMA SubDomainFold ==
    \A z, m, n \in Name : EqualFold(m, n) /\ IsSubDomain(z, m) => IsSubDomain(z, n)
BY DEF IsSubDomain, EqualFold, Name

LEMMA SubDomainLength ==
    \A m, n \in Name :
        IsSubDomain(m, n) => /\ Len(m) <= Len(n)
                             /\ Len(m) = Len(n) => EqualFold(m, n)
BY DEF IsSubDomain, EqualFold, Name

LEMMA RootEncloses == \A n \in Name : IsSubDomain(Root, n)
BY DEF IsSubDomain, Name, Root

(* The records at a name do not depend on how it is spelled.               *)
LEMMA AtFold ==
    ASSUME NEW s, IsSection(s), NEW m \in Name, NEW n \in Name, EqualFold(m, n)
    PROVE  At(s, m) = At(s, n)
<1>1. \A i \in DOMAIN s : s[i].owner \in Name
  BY DEF IsSection, RR
<1> QED BY <1>1, EqualFoldSymmetric, EqualFoldTransitive DEF At

-----------------------------------------------------------------------------
(* Orbit(n, step, Names) contains n and is closed under step within Names, *)
(* and every set with these two properties contains it.                    *)
LEMMA OrbitStart ==
    ASSUME NEW n, NEW step, NEW Names, n \in Names
    PROVE  n \in Orbit(n, step, Names)
BY DEF Orbit

LEMMA OrbitStep ==
    ASSUME NEW n, NEW step, NEW Names,
           NEW m \in Orbit(n, step, Names), m \in DOMAIN step, step[m] \in Names
    PROVE  step[m] \in Orbit(n, step, Names)
BY DEF Orbit

LEMMA OrbitLeast ==
    ASSUME NEW n, NEW step, NEW Names, NEW S \in SUBSET Names,
           n \in Names => n \in S,
           \A k \in S \cap DOMAIN step : step[k] \in Names => step[k] \in S
    PROVE  Orbit(n, step, Names) \subseteq S
BY DEF Orbit

(* From m an orbit goes on to step[m].                                     *)
LEMMA OrbitUnfold ==
    ASSUME NEW step, NEW Names, NEW m \in Names, m \in DOMAIN step, step[m] \in Names
    PROVE  /\ Orbit(step[m], step, Names) \subseteq Orbit(m, step, Names)
           /\ Orbit(m, step, Names) \subseteq {m} \cup Orbit(step[m], step, Names)
<1> DEFINE O(n) == Orbit(n, step, Names)
           T == {m} \cup O(step[m])
<1>0. O(m) \in SUBSET Names /\ O(step[m]) \in SUBSET Names
  BY DEF Orbit
<1>1. m \in O(m) /\ step[m] \in O(m) /\ step[m] \in O(step[m])
  BY OrbitStart, OrbitStep
<1>2. \A k \in O(m) \cap DOMAIN step : step[k] \in Names => step[k] \in O(m)
  BY OrbitStep
<1>3. O(step[m]) \subseteq O(m)
  <2> HIDE DEF O
  <2>1. Orbit(step[m], step, Names) \subseteq O(m)
    BY <1>0, <1>1, <1>2, OrbitLeast
  <2> QED BY <2>1 DEF O
<1>4. \A k \in T \cap DOMAIN step : step[k] \in Names => step[k] \in T
  BY <1>1, OrbitStep
<1>5. O(m) \subseteq T
  <2>1. T \in SUBSET Names /\ m \in T
    BY <1>0
  <2> HIDE DEF T
  <2> QED BY <1>4, <2>1, OrbitLeast
<1> QED BY <1>3, <1>5

(* Where an orbit ends is ahead of every name in it, and nothing but       *)
(* itself is ahead of that.                                                *)
LEMMA OrbitEnd ==
    ASSUME NEW n, NEW step, NEW Names,
           NEW e \in Orbit(n, step, Names), e \notin DOMAIN step
    PROVE  /\ \A m \in Orbit(n, step, Names) : e \in Orbit(m, step, Names)
           /\ Orbit(e, step, Names) \subseteq {e}
<1> DEFINE S == {m \in Names : e \in Orbit(m, step, Names)}
<1>1. n \in Names => n \in S
  OBVIOUS
<1>2. ASSUME NEW k \in S \cap DOMAIN step, step[k] \in Names
      PROVE  step[k] \in S
  BY <1>2, OrbitUnfold
<1>3. Orbit(n, step, Names) \subseteq S
  <2>1. S \in SUBSET Names
    OBVIOUS
  <2>2. \A k \in S \cap DOMAIN step : step[k] \in Names => step[k] \in S
    BY <1>2
  <2> HIDE DEF S
  <2> QED BY <1>1, <2>1, <2>2, OrbitLeast
<1>4. Orbit(e, step, Names) \subseteq {e}
  <2> DEFINE B == {e}
  <2>1. B \in SUBSET Names /\ e \in B /\ B \cap DOMAIN step = {}
    BY DEF Orbit
  <2> HIDE DEF B
  <2>2. Orbit(e, step, Names) \subseteq B
    BY <2>1, OrbitLeast
  <2> QED BY <2>2 DEF B
<1> QED BY <1>3, <1>4

(* An orbit ends at one place at most.                                     *)
LEMMA OrbitOneEnd ==
    ASSUME NEW n, NEW step, NEW Names,
           NEW a \in Orbit(n, step, Names), a \notin DOMAIN step,
           NEW b \in Orbit(n, step, Names), b \notin DOMAIN step
    PROVE  a = b
BY OrbitEnd

(* An orbit that ends comes to no name twice: nothing ahead of step[m]     *)
(* leads there again.                                                      *)
LEMMA OrbitNoReturn ==
    ASSUME NEW step, NEW Names,
           NEW m \in Names, m \in DOMAIN step, step[m] \in Names,
           NEW e \in Orbit(m, step, Names), e \notin DOMAIN step,
           NEW x \in Orbit(step[m], step, Names), x \in DOMAIN step
    PROVE  step[x] # step[m]
<1> SUFFICES ASSUME step[x] = step[m] PROVE FALSE
  OBVIOUS
<1> DEFINE S == {k \in Names : x \in Orbit(k, step, Names)}
<1>1. e \in Orbit(step[m], step, Names)
  BY OrbitUnfold
<1>2. step[m] \in S
  OBVIOUS
<1>3. ASSUME NEW k \in S \cap DOMAIN step, step[k] \in Names
      PROVE  step[k] \in S
  <2>1. x = k \/ x \in Orbit(step[k], step, Names)
    BY <1>3, OrbitUnfold
  <2> QED BY <1>2, <1>3, <2>1
<1>4. Orbit(step[m], step, Names) \subseteq S
  <2>1. S \in SUBSET Names
    OBVIOUS
  <2>2. \A k \in S \cap DOMAIN step : step[k] \in Names => step[k] \in S
    BY <1>3
  <2> HIDE DEF S
  <2> QED BY <1>2, <2>1, <2>2, OrbitLeast
<1>5. x \in Orbit(e, step, Names)
  BY <1>1, <1>4
<1> QED BY <1>1, <1>5, OrbitEnd

-----------------------------------------------------------------------------
(* Measures cannot run down for ever: no sequence of them is infinite in   *)
(* which each comes below the one before.                                  *)
BelowOrder(n) == {p \in Measures(n) \X Measures(n) : Below(p[1], p[2])}

LEMMA BelowWellFounded ==
    ASSUME NEW n \in Nat
    PROVE  IsWellFoundedOn(BelowOrder(n), Measures(n))
<1>1. IsWellFoundedOn(LexProductOrdering(OpToRel(<, Nat), Nat, n), [1..n -> Nat])
  BY NatLessThanWellFounded, WFLexProductOrdering
<1>2. \A p \in BelowOrder(n) : p \in LexProductOrdering(OpToRel(<, Nat), Nat, n)
  BY DEF BelowOrder, Measures, Below, LexProductOrdering, OpToRel
<1> QED BY <1>1, <1>2, IsWellFoundedOnSubrelation DEF Measures

(* What decides which of two measures is below the other.                  *)
LEMMA FourBelow ==
    ASSUME NEW a, NEW b, NEW c, NEW d, NEW p, NEW q, NEW r, NEW s,
           \/ a < p
           \/ a = p /\ b < q
           \/ a = p /\ b = q /\ c < r
           \/ a = p /\ b = q /\ c = r /\ d < s
    PROVE  Below(<<a, b, c, d>>, <<p, q, r, s>>)
<1> DEFINE lo == <<a, b, c, d>>
           hi == <<p, q, r, s>>
<1>1. /\ DOMAIN hi = 1..4
      /\ lo[1] = a /\ lo[2] = b /\ lo[3] = c /\ lo[4] = d
      /\ hi[1] = p /\ hi[2] = q /\ hi[3] = r /\ hi[4] = s
  OBVIOUS
<1> HIDE DEF lo, hi
<1>2. \A k \in 1..4 : lo[k] < hi[k] /\ (\A j \in 1..k - 1 : lo[j] = hi[j]) => Below(lo, hi)
  BY <1>1 DEF Below
<1>3. Below(lo, hi)
  BY <1>1, <1>2
<1> QED BY <1>3 DEF lo, hi

LEMMA SixBelow ==
    ASSUME NEW a, NEW b, NEW c, NEW d, NEW e, NEW f,
           NEW p, NEW q, NEW r, NEW s, NEW t, NEW u,
           \/ a < p
           \/ a = p /\ b < q
           \/ a = p /\ b = q /\ c < r
           \/ a = p /\ b = q /\ c = r /\ d < s
           \/ a = p /\ b = q /\ c = r /\ d = s /\ e < t
           \/ a = p /\ b = q /\ c = r /\ d = s /\ e = t /\ f < u
    PROVE  Below(<<a, b, c, d, e, f>>, <<p, q, r, s, t, u>>)
<1> DEFINE lo == <<a, b, c, d, e, f>>
           hi == <<p, q, r, s, t, u>>
<1>1. /\ DOMAIN hi = 1..6
      /\ lo[1] = a /\ lo[2] = b /\ lo[3] = c /\ lo[4] = d /\ lo[5] = e /\ lo[6] = f
      /\ hi[1] = p /\ hi[2] = q /\ hi[3] = r /\ hi[4] = s /\ hi[5] = t /\ hi[6] = u
  OBVIOUS
<1> HIDE DEF lo, hi
<1>2. \A k \in 1..6 : lo[k] < hi[k] /\ (\A j \in 1..k - 1 : lo[j] = hi[j]) => Below(lo, hi)
  BY <1>1 DEF Below
<1>3. Below(lo, hi)
  BY <1>1, <1>2
<1> QED BY <1>3 DEF lo, hi

-----------------------------------------------------------------------------
(* A function has finitely many values on a finite set.                    *)
LEMMA FiniteImage ==
    ASSUME NEW S, IsFiniteSet(S), NEW f
    PROVE  IsFiniteSet({f[x] : x \in S})
<1> DEFINE T == {f[x] : x \in S}
           g == [x \in S |-> f[x]]
<1>1. g \in Surjection(S, T)
  BY DEF Surjection
<1> HIDE DEF g, T
<1>2. IsFiniteSet(T)
  BY <1>1, FS_Surjection
<1> QED BY <1>2 DEF T
=============================================================================
