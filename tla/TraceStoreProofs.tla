-------------------------- MODULE TraceStoreProofs --------------------------
(***************************************************************************)
(* The trace store is the LRU cache it sets out to be, for every capacity  *)
(* and whatever is put and got: it holds a prefix of the history of        *)
(* records by recency of use, and its index leads to all of it.  The       *)
(* invariant adds to the two properties that no id is put twice, without   *)
(* which an eviction could unlink the newer of two elements.               *)
(***************************************************************************)
EXTENDS TraceStore, TLAPS

IdsDistinct == \A i, j \in 1..Len(recency) : recency[i].id = recency[j].id => i = j

IInv == TypeOK /\ KeepsMostRecent /\ IndexMatchesList /\ IdsDistinct

(* What pushing to the front and moving to the front make of a list.       *)
LEMMA PushFrontSeq ==
    ASSUME NEW s \in Seq(Element), NEW e \in Element
    PROVE  /\ PushFront(s, e) \in Seq(Element)
           /\ Len(PushFront(s, e)) = Len(s) + 1
           /\ \A i \in 1..Len(s) + 1 :
                PushFront(s, e)[i] = IF i = 1 THEN e ELSE s[i - 1]
<1> DEFINE t == PushFront(s, e)
<1>1. Len(s) \in Nat /\ Len(s) + 1 \in Nat
  OBVIOUS
<1>2. \A i \in 1..Len(s) + 1 : i = 1 \/ i - 1 \in 1..Len(s)
  BY <1>1
<1>3. t = [i \in 1..Len(s) + 1 |-> IF i = 1 THEN e ELSE s[i - 1]]
  BY DEF PushFront
<1> HIDE DEF t
<1>4. \A i \in 1..Len(s) + 1 : (IF i = 1 THEN e ELSE s[i - 1]) \in Element
  BY <1>2
<1>5. t \in [1..Len(s) + 1 -> Element]
  BY <1>3, <1>4
<1>6. t \in Seq(Element) /\ Len(t) = Len(s) + 1
  BY <1>1, <1>5
<1>7. \A i \in 1..Len(s) + 1 : t[i] = IF i = 1 THEN e ELSE s[i - 1]
  BY <1>3
<1> QED BY <1>6, <1>7 DEF t

LEMMA PositionOf ==
    ASSUME NEW s \in Seq(Element), NEW k \in 1..Len(s),
           \A i \in 1..Len(s) : s[i] = s[k] => i = k
    PROVE  Position(s, s[k]) = k
BY DEF Position

LEMMA MoveToFrontSeq ==
    ASSUME NEW s \in Seq(Element), NEW k \in 1..Len(s),
           \A i \in 1..Len(s) : s[i] = s[k] => i = k
    PROVE  /\ MoveToFront(s, s[k]) \in Seq(Element)
           /\ Len(MoveToFront(s, s[k])) = Len(s)
           /\ \A i \in 1..Len(s) :
                MoveToFront(s, s[k])[i] = IF i = 1 THEN s[k]
                                          ELSE IF i <= k THEN s[i - 1]
                                          ELSE s[i]
<1> DEFINE t == MoveToFront(s, s[k])
<1>1. Len(s) \in Nat
  OBVIOUS
<1>2. \A i \in 1..Len(s) : i = 1 \/ i - 1 \in 1..Len(s)
  BY <1>1
<1>3. t = [i \in 1..Len(s) |-> IF i = 1 THEN s[k]
                                ELSE IF i <= k THEN s[i - 1]
                                ELSE s[i]]
  BY PositionOf DEF MoveToFront
<1> HIDE DEF t
<1>4. \A i \in 1..Len(s) : (IF i = 1 THEN s[k] ELSE IF i <= k THEN s[i - 1] ELSE s[i]) \in Element
  BY <1>2
<1>5. t \in [1..Len(s) -> Element]
  BY <1>3, <1>4
<1>6. t \in Seq(Element) /\ Len(t) = Len(s)
  BY <1>1, <1>5
<1>7. \A i \in 1..Len(s) : t[i] = IF i = 1 THEN s[k]
                                ELSE IF i <= k THEN s[i - 1]
                                ELSE s[i]
  BY <1>3
<1> QED BY <1>6, <1>7 DEF t

-----------------------------------------------------------------------------
LEMMA InitIInv == Init => IInv
BY CapacityAssumption DEF Init, IInv, TypeOK, KeepsMostRecent, IndexMatchesList, IdsDistinct

LEMMA PutIInv ==
    ASSUME IInv, NEW id \in Ids, NEW record \in Records, Fresh(id), Put(id, record)
    PROVE  IInv'
<1> DEFINE el == [id |-> id, record |-> record]
           pushed == PushFront(ll, el)
           indexed == [x \in DOMAIN index \cup {id} |-> IF x = id THEN el ELSE index[x]]
           oldest == pushed[Len(pushed)]
           n == Len(ll)
<1> USE DEF IInv
<1>1. el \in Element /\ el.id = id
  BY DEF Element
<1>2. /\ pushed \in Seq(Element) /\ Len(pushed) = n + 1
      /\ \A i \in 1..n + 1 : pushed[i] = IF i = 1 THEN el ELSE ll[i - 1]
  <2>1. ll \in Seq(Element)
    BY DEF TypeOK
  <2> HIDE DEF el, IInv
  <2> QED BY <1>1, <2>1, PushFrontSeq
<1>3. /\ recency' \in Seq(Element) /\ Len(recency') = Len(recency) + 1
      /\ \A i \in 1..Len(recency) + 1 : recency'[i] = IF i = 1 THEN el ELSE recency[i - 1]
  <2>1. recency' = PushFront(recency, el)
    BY DEF Put
  <2>2. recency \in Seq(Element)
    BY DEF TypeOK
  <2> DEFINE longer == PushFront(recency, el)
  <2> HIDE DEF el, IInv
  <2>3. /\ longer \in Seq(Element) /\ Len(longer) = Len(recency) + 1
        /\ \A i \in 1..Len(recency) + 1 : longer[i] = IF i = 1 THEN el ELSE recency[i - 1]
    BY <1>1, <2>2, PushFrontSeq
  <2>4. recency' = longer
    BY <2>1
  <2> HIDE DEF longer
  <2> QED BY <2>3, <2>4
<1>4. n \in Nat /\ Len(recency) \in Nat /\ n <= Len(recency) /\ n <= Capacity /\ Capacity \in Nat
  BY CapacityAssumption DEF TypeOK, KeepsMostRecent
<1>5. \A i \in 1..n + 1 : pushed[i] = recency'[i]
  <2> HIDE DEF pushed, el
  <2>1. ASSUME NEW i \in 1..n + 1, i # 1 PROVE pushed[i] = recency'[i]
    <3>1. i - 1 \in 1..n /\ i \in 1..Len(recency) + 1
      BY <1>4, <2>1
    <3> QED BY <1>2, <1>3, <2>1, <3>1 DEF KeepsMostRecent
  <2>2. 1 \in 1..n + 1 /\ 1 \in 1..Len(recency) + 1
    BY <1>4
  <2> QED BY <1>2, <1>3, <2>1, <2>2
<1>6. IdsDistinct'
  <2> SUFFICES ASSUME NEW i \in 1..Len(recency) + 1, NEW j \in 1..Len(recency) + 1,
                      recency'[i].id = recency'[j].id
               PROVE  i = j
    BY <1>3 DEF IdsDistinct
  <2>1. CASE i = 1 /\ j = 1
    BY <2>1
  <2>2. CASE i = 1 /\ j # 1
    BY <2>2, <1>1, <1>3, <1>4 DEF Fresh
  <2>3. CASE i # 1 /\ j = 1
    BY <2>3, <1>1, <1>3, <1>4 DEF Fresh
  <2>4. CASE i # 1 /\ j # 1
    <3>1. i - 1 \in 1..Len(recency) /\ j - 1 \in 1..Len(recency)
      BY <2>4, <1>4
    <3>2. recency[i - 1].id = recency[j - 1].id
      BY <2>4, <1>3
    <3> QED BY <3>1, <3>2, <1>4 DEF IdsDistinct
  <2> QED BY <2>1, <2>2, <2>3, <2>4
<1>7. /\ \A x \in DOMAIN indexed : \E i \in 1..n + 1 : pushed[i] = indexed[x] /\ pushed[i].id = x
      /\ \A i \in 1..n + 1 : pushed[i].id \in DOMAIN indexed
  <2>1. ASSUME NEW x \in DOMAIN index, x # id
        PROVE  \E i \in 1..n + 1 : pushed[i] = indexed[x] /\ pushed[i].id = x
    <3>1. PICK k \in 1..n : ll[k] = index[x] /\ ll[k].id = x
      BY DEF IndexMatchesList
    <3>2. k + 1 \in 1..n + 1 /\ pushed[k + 1] = ll[k]
      BY <1>2, <1>4
    <3> QED BY <2>1, <3>1, <3>2
  <2>2. pushed[1] = el /\ 1 \in 1..n + 1
    BY <1>2, <1>4
  <2>3. ASSUME NEW i \in 1..n + 1 PROVE pushed[i].id \in DOMAIN indexed
    <3>1. CASE i = 1
      BY <3>1, <2>2, <1>1
    <3>2. CASE i # 1
      <4>1. i - 1 \in 1..n /\ pushed[i] = ll[i - 1]
        BY <3>2, <1>2, <1>4
      <4> QED BY <4>1 DEF IndexMatchesList
    <3> QED BY <3>1, <3>2
  <2> QED BY <1>1, <2>1, <2>2, <2>3
<1>8. /\ DOMAIN indexed \subseteq Ids
      /\ \A x \in DOMAIN indexed : indexed[x] \in Element
  BY <1>1 DEF TypeOK
<1>9. CASE n + 1 > Capacity
  <2>1. ll' = SubSeq(pushed, 1, n) /\ index' = [x \in DOMAIN indexed \ {oldest.id} |-> indexed[x]]
    <3>1. Len(pushed) > Capacity /\ Len(pushed) - 1 = n
      BY <1>2, <1>4, <1>9
    <3> QED BY <3>1 DEF Put
  <2>2. ll' \in Seq(Element) /\ Len(ll') = n /\ \A i \in 1..n : ll'[i] = pushed[i]
    BY <1>2, <1>4, <2>1
  <2>3. KeepsMostRecent'
    <3> HIDE DEF pushed, indexed, el
    <3>1. n = Capacity /\ Len(recency') > Capacity
      BY <1>3, <1>4, <1>9
    <3>2. ASSUME NEW i \in 1..n PROVE ll'[i] = recency'[i]
      <4>1. i \in 1..n + 1
        BY <1>4
      <4> QED BY <4>1, <1>5, <2>2
    <3> QED BY <1>3, <2>2, <3>1, <3>2 DEF KeepsMostRecent
  <2>4. oldest = pushed[n + 1]
    BY <1>2
  <2>5. \A i \in 1..n : pushed[i].id # oldest.id
    <3> HIDE DEF pushed, indexed, el
    <3> SUFFICES ASSUME NEW i \in 1..n, pushed[i].id = oldest.id PROVE FALSE
      OBVIOUS
    <3>1. /\ i \in 1..n + 1 /\ n + 1 \in 1..n + 1
          /\ i \in 1..Len(recency') /\ n + 1 \in 1..Len(recency')
      BY <1>3, <1>4
    <3>2. recency'[i].id = recency'[n + 1].id
      BY <1>5, <2>4, <3>1
    <3>3. i = n + 1
      BY <1>6, <3>1, <3>2 DEF IdsDistinct
    <3> QED BY <1>4, <3>3
  <2>6. IndexMatchesList'
    <3>1. ASSUME NEW x \in DOMAIN index'
          PROVE  \E i \in 1..n : ll'[i] = index'[x] /\ ll'[i].id = x
      <4>1. PICK i \in 1..n + 1 : pushed[i] = indexed[x] /\ pushed[i].id = x
        BY <1>7, <2>1, <3>1
      <4>2. i # n + 1
        BY <2>1, <2>4, <3>1, <4>1
      <4> QED BY <1>4, <2>1, <2>2, <3>1, <4>1, <4>2
    <3>2. ASSUME NEW i \in 1..n PROVE ll'[i].id \in DOMAIN index'
      <4>1. i \in 1..n + 1
        BY <1>4
      <4> QED BY <1>7, <2>1, <2>2, <2>5, <4>1
    <3> QED BY <2>2, <3>1, <3>2 DEF IndexMatchesList
  <2>7. TypeOK'
    BY <1>3, <1>8, <2>1, <2>2 DEF TypeOK
  <2> QED BY <1>6, <2>3, <2>6, <2>7
<1>10. CASE ~(n + 1 > Capacity)
  <2>1. ll' = pushed /\ index' = indexed
    BY <1>2, <1>10 DEF Put
  <2>2. KeepsMostRecent'
    BY <1>2, <1>3, <1>4, <1>5, <1>10, <2>1 DEF KeepsMostRecent
  <2>3. IndexMatchesList'
    BY <1>2, <1>7, <2>1 DEF IndexMatchesList
  <2>4. TypeOK'
    BY <1>2, <1>3, <1>8, <2>1 DEF TypeOK
  <2> QED BY <1>6, <2>2, <2>3, <2>4
<1> QED BY <1>9, <1>10

LEMMA GetIInv ==
    ASSUME IInv, NEW id \in Ids, Get(id)
    PROVE  IInv'
<1> USE DEF IInv
<1>1. CASE ~Holds(id)
  BY <1>1 DEF Get, TypeOK, KeepsMostRecent, IndexMatchesList, IdsDistinct
<1>2. CASE Holds(id)
  <2> DEFINE n == Len(ll)
  <2>1. PICK k \in 1..n : ll[k] = index[id] /\ ll[k].id = id
    BY <1>2 DEF Holds, IndexMatchesList
  <2>2. n \in Nat /\ Len(recency) \in Nat /\ n <= Len(recency)
    BY CapacityAssumption DEF TypeOK, KeepsMostRecent
  <2>3. k \in 1..Len(recency) /\ recency[k] = ll[k]
    BY <2>1, <2>2 DEF KeepsMostRecent
  <2>4. /\ \A i \in 1..n : ll[i] = ll[k] => i = k
        /\ \A i \in 1..Len(recency) : recency[i] = recency[k] => i = k
    BY <2>2, <2>3 DEF KeepsMostRecent, IdsDistinct
  <2>5. /\ ll' = MoveToFront(ll, ll[k])
        /\ recency' = MoveToFront(recency, recency[k])
        /\ index' = index
    BY <1>2, <2>1, <2>3 DEF Get, Found
  <2>6. /\ ll' \in Seq(Element) /\ Len(ll') = n
        /\ \A i \in 1..n : ll'[i] = IF i = 1 THEN ll[k] ELSE IF i <= k THEN ll[i - 1] ELSE ll[i]
    <3>1. ll \in Seq(Element) /\ k \in 1..Len(ll)
      BY <2>1 DEF TypeOK
    <3> DEFINE moved == MoveToFront(ll, ll[k])
    <3> HIDE DEF IInv
    <3>2. /\ moved \in Seq(Element) /\ Len(moved) = n
          /\ \A i \in 1..n :
                moved[i] = IF i = 1 THEN ll[k] ELSE IF i <= k THEN ll[i - 1] ELSE ll[i]
      BY <2>4, <3>1, MoveToFrontSeq
    <3>3. ll' = moved
      BY <2>5
    <3> HIDE DEF moved
    <3> QED BY <3>2, <3>3
  <2>7. /\ recency' \in Seq(Element) /\ Len(recency') = Len(recency)
        /\ \A i \in 1..Len(recency) :
                recency'[i] = IF i = 1 THEN recency[k]
                              ELSE IF i <= k THEN recency[i - 1] ELSE recency[i]
    <3>1. recency \in Seq(Element)
      BY DEF TypeOK
    <3> DEFINE moved == MoveToFront(recency, recency[k])
    <3> HIDE DEF IInv
    <3>2. /\ moved \in Seq(Element) /\ Len(moved) = Len(recency)
          /\ \A i \in 1..Len(recency) :
                moved[i] = IF i = 1 THEN recency[k]
                           ELSE IF i <= k THEN recency[i - 1] ELSE recency[i]
      BY <2>3, <2>4, <3>1, MoveToFrontSeq
    <3>3. recency' = moved
      BY <2>5
    <3> HIDE DEF moved
    <3> QED BY <3>2, <3>3
  <2>8. KeepsMostRecent'
    <3>1. ASSUME NEW i \in 1..n PROVE ll'[i] = recency'[i]
      <4>1. i \in 1..Len(recency) /\ (i # 1 => i - 1 \in 1..n)
        BY <2>2
      <4>2. \A j \in 1..n : ll[j] = recency[j]
        BY DEF KeepsMostRecent
      <4>3. CASE i = 1
        BY <2>3, <2>6, <2>7, <4>1, <4>3
      <4>4. CASE i # 1 /\ i <= k
        BY <2>6, <2>7, <4>1, <4>2, <4>4
      <4>5. CASE i > k
        BY <2>6, <2>7, <4>1, <4>2, <4>5
      <4> QED BY <2>2, <4>3, <4>4, <4>5
    <3> QED BY <2>6, <2>7, <3>1 DEF KeepsMostRecent
  <2>9. IdsDistinct'
    <3> DEFINE was(i) == IF i = 1 THEN k ELSE IF i <= k THEN i - 1 ELSE i
    <3>1. ASSUME NEW i \in 1..Len(recency)
          PROVE  was(i) \in 1..Len(recency) /\ recency'[i] = recency[was(i)]
      BY <2>2, <2>3, <2>7
    <3>2. ASSUME NEW i \in 1..Len(recency), NEW j \in 1..Len(recency), was(i) = was(j)
          PROVE  i = j
      BY <2>2, <2>3, <3>2
    <3> HIDE DEF was
    <3>3. ASSUME NEW i \in 1..Len(recency), NEW j \in 1..Len(recency),
                 recency'[i].id = recency'[j].id
          PROVE  i = j
      <4>1. recency[was(i)].id = recency[was(j)].id
        BY <3>1, <3>3
      <4>2. was(i) = was(j)
        BY <3>1, <4>1 DEF IdsDistinct
      <4> QED BY <3>2, <4>2
    <3> QED BY <2>7, <3>3 DEF IdsDistinct
  <2>10. IndexMatchesList'
    <3>1. ASSUME NEW x \in DOMAIN index
          PROVE  \E i \in 1..n : ll'[i] = index[x] /\ ll'[i].id = x
      <4>1. PICK j \in 1..n : ll[j] = index[x] /\ ll[j].id = x
        BY DEF IndexMatchesList
      <4>2. CASE j = k
        BY <2>2, <2>6, <4>1, <4>2
      <4>3. CASE j < k
        <5>1. j + 1 \in 1..n /\ ll'[j + 1] = ll[j]
          BY <2>2, <2>6, <4>3
        <5> QED BY <4>1, <5>1
      <4>4. CASE j > k
        BY <2>2, <2>6, <4>1, <4>4
      <4> QED BY <2>2, <4>2, <4>3, <4>4
    <3>2. ASSUME NEW i \in 1..n PROVE ll'[i].id \in DOMAIN index
      <4>1. PICK j \in 1..n : ll'[i] = ll[j]
        BY <2>2, <2>6
      <4> QED BY <4>1 DEF IndexMatchesList
    <3> QED BY <2>5, <2>6, <3>1, <3>2 DEF IndexMatchesList
  <2>11. TypeOK'
    BY <2>5, <2>6, <2>7 DEF TypeOK
  <2> QED BY <2>8, <2>9, <2>10, <2>11
<1> QED BY <1>1, <1>2

(* What has been put stays in the history: a Put adds its record, and a    *)
(* Get only changes the order.                                             *)
Elements == {recency[i] : i \in 1..Len(recency)}

LEMMA PutElements ==
    ASSUME IInv, NEW id \in Ids, NEW record \in Records, Put(id, record)
    PROVE  Elements' = Elements \cup {[id |-> id, record |-> record]}
<1> DEFINE el == [id |-> id, record |-> record]
           longer == PushFront(recency, el)
<1>1. recency \in Seq(Element) /\ el \in Element /\ recency' = longer
  BY DEF IInv, TypeOK, Element, Put
<1> HIDE DEF el
<1>2. /\ Len(longer) = Len(recency) + 1
      /\ \A i \in 1..Len(recency) + 1 : longer[i] = IF i = 1 THEN el ELSE recency[i - 1]
  BY <1>1, PushFrontSeq
<1>3. Len(recency) \in Nat
  BY <1>1
<1> HIDE DEF longer
<1>4. ASSUME NEW i \in 1..Len(longer) PROVE longer[i] \in Elements \cup {el}
  <2>1. i = 1 \/ i - 1 \in 1..Len(recency)
    BY <1>2, <1>3
  <2> QED BY <1>2, <2>1 DEF Elements
<1>5. ASSUME NEW i \in 1..Len(recency)
      PROVE  i + 1 \in 1..Len(longer) /\ longer[i + 1] = recency[i]
  BY <1>2, <1>3
<1>6. 1 \in 1..Len(longer) /\ longer[1] = el
  BY <1>2, <1>3
<1>7. Elements' = {longer[i] : i \in 1..Len(longer)}
  BY <1>1 DEF Elements
<1>8. ASSUME NEW e \in Elements' PROVE e \in Elements \cup {el}
  BY <1>4, <1>7
<1>9. ASSUME NEW e \in Elements PROVE e \in Elements'
  <2>1. PICK i \in 1..Len(recency) : e = recency[i]
    BY DEF Elements
  <2> QED BY <1>5, <1>7, <2>1
<1>10. el \in Elements'
  BY <1>6, <1>7
<1>11. Elements' = Elements \cup {el}
  BY <1>8, <1>9, <1>10
<1> QED BY <1>11 DEF el

LEMMA GetElements ==
    ASSUME IInv, NEW id \in Ids, Get(id)
    PROVE  Elements' = Elements
<1>1. CASE ~Holds(id)
  BY <1>1 DEF Get, Elements
<1>2. CASE Holds(id)
  <2>1. PICK k \in 1..Len(ll) : ll[k] = index[id]
    BY <1>2 DEF IInv, Holds, IndexMatchesList
  <2>2. recency \in Seq(Element) /\ Len(recency) \in Nat /\ Len(ll) <= Len(recency)
    BY CapacityAssumption DEF IInv, TypeOK, KeepsMostRecent
  <2>3. k \in 1..Len(recency) /\ recency[k] = index[id]
    BY <2>1, <2>2 DEF IInv, KeepsMostRecent
  <2>4. \A i \in 1..Len(recency) : recency[i] = recency[k] => i = k
    BY <2>2, <2>3 DEF IInv, IdsDistinct
  <2>5. recency' = MoveToFront(recency, recency[k])
    BY <1>2, <2>3 DEF Get, Found
  <2>6. /\ Len(recency') = Len(recency)
        /\ \A i \in 1..Len(recency) :
                recency'[i] = IF i = 1 THEN recency[k]
                              ELSE IF i <= k THEN recency[i - 1] ELSE recency[i]
    <3>1. recency \in Seq(Element)
      BY <2>2
    <3> DEFINE moved == MoveToFront(recency, recency[k])
    <3> HIDE DEF IInv
    <3>2. /\ moved \in Seq(Element) /\ Len(moved) = Len(recency)
          /\ \A i \in 1..Len(recency) :
                moved[i] = IF i = 1 THEN recency[k]
                           ELSE IF i <= k THEN recency[i - 1] ELSE recency[i]
      BY <2>3, <2>4, <3>1, MoveToFrontSeq
    <3>3. recency' = moved
      BY <2>5
    <3> HIDE DEF moved
    <3> QED BY <3>2, <3>3
  <2>7. ASSUME NEW i \in 1..Len(recency) PROVE recency'[i] \in Elements
    <3>1. i = 1 \/ i - 1 \in 1..Len(recency)
      BY <2>2
    <3> QED BY <2>3, <2>6, <3>1 DEF Elements
  <2>8. ASSUME NEW i \in 1..Len(recency)
        PROVE  \E j \in 1..Len(recency) : recency'[j] = recency[i]
    <3>1. CASE i = k
      BY <2>2, <2>6, <3>1
    <3>2. CASE i < k
      <4>1. i + 1 \in 1..Len(recency) /\ recency'[i + 1] = recency[i]
        BY <2>2, <2>3, <2>6, <3>2
      <4> QED BY <4>1
    <3>3. CASE i > k
      BY <2>2, <2>3, <2>6, <3>3
    <3> QED BY <2>2, <2>3, <3>1, <3>2, <3>3
  <2>9. Elements' \subseteq Elements
    BY <2>6, <2>7 DEF Elements
  <2>10. Elements \subseteq Elements'
    <3> SUFFICES ASSUME NEW e \in Elements PROVE e \in Elements'
      OBVIOUS
    <3>1. PICK i \in 1..Len(recency) : e = recency[i]
      BY DEF Elements
    <3>2. PICK j \in 1..Len(recency) : recency'[j] = recency[i]
      BY <2>8
    <3>3. j \in 1..Len(recency')
      BY <2>6, <3>2
    <3> QED BY <3>1, <3>2, <3>3 DEF Elements
  <2> QED BY <2>9, <2>10
<1> QED BY <1>1, <1>2

LEMMA NextIInv == IInv /\ [Next]_vars => IInv'
<1> SUFFICES ASSUME IInv, [Next]_vars PROVE IInv'
  OBVIOUS
<1>1. CASE UNCHANGED vars
  BY <1>1 DEF vars, IInv, TypeOK, KeepsMostRecent, IndexMatchesList, IdsDistinct
<1>2. ASSUME NEW id \in Ids, Get(id) PROVE IInv'
  BY <1>2, GetIInv
<1>3. ASSUME NEW id \in Ids, NEW record \in Records, Fresh(id), Put(id, record) PROVE IInv'
  BY <1>3, PutIInv
<1> QED BY <1>1, <1>2, <1>3 DEF Next

(* List, index and history hold elements: an id and the record put under   *)
(* it (traceEntry, trace.go:44-50).                                        *)
THEOREM StoreTypeOK == Spec => []TypeOK
<1>1. IInv => TypeOK
  BY DEF IInv
<1> QED BY InitIInv, NextIInv, <1>1, PTL DEF Spec

(* The list holds the Capacity most recently used records, in order        *)
(* (TraceStore.Put and TraceStore.Get, trace.go:79-110).                   *)
THEOREM StoreKeepsMostRecent == Spec => []KeepsMostRecent
<1>1. IInv => KeepsMostRecent
  BY DEF IInv
<1> QED BY InitIInv, NextIInv, <1>1, PTL DEF Spec

(* The index reaches every element of the list, and nothing else.          *)
THEOREM StoreIndexMatchesList == Spec => []IndexMatchesList
<1>1. IInv => IndexMatchesList
  BY DEF IInv
<1> QED BY InitIInv, NextIInv, <1>1, PTL DEF Spec
=============================================================================
