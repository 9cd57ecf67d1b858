----------------------------- MODULE TraceStore -----------------------------
(***************************************************************************)
(* TraceStore (resolver/trace.go): the records of recent requests, kept in *)
(* a list by recency of use and indexed by id.  Requests put records while *)
(* HTTP clients get them; each operation holds TraceStore.mu.              *)
(*                                                                         *)
(* An id is put once: newTraceID draws it at random from 2^128.  Elements  *)
(* of the list are then told apart by their ids, and an element of the     *)
(* index is the list element it points to.                                 *)
(***************************************************************************)
EXTENDS Naturals, Sequences

CONSTANTS Capacity,     \* how many records are kept
          Ids,          \* the ids newTraceID draws
          Records       \* the records put

ASSUME CapacityAssumption == Capacity \in Nat \ {0}

VARIABLES ll,           \* the list, most recently used element first
          index,        \* id -> list element
          recency       \* every element ever put, by recency of use (history)

vars == <<ll, index, recency>>

Element == [id : Ids, record : Records]

Init == /\ ll = << >>
        /\ index = << >>
        /\ recency = << >>

PushFront(s, e) == [i \in 1..Len(s) + 1 |-> IF i = 1 THEN e ELSE s[i - 1]]

Position(s, e) == CHOOSE i \in 1..Len(s) : s[i] = e

MoveToFront(s, e) ==
    [i \in 1..Len(s) |-> IF i = 1 THEN e
                         ELSE IF i <= Position(s, e) THEN s[i - 1]
                         ELSE s[i]]

(* Mutant: an eviction leaves the id in the index.                         *)
PutLeavesIndex(id, record) ==
    LET el == [id |-> id, record |-> record]
        pushed == PushFront(ll, el)
    IN  /\ ll' = IF Len(pushed) > Capacity
                 THEN SubSeq(pushed, 1, Len(pushed) - 1)
                 ELSE pushed
        /\ index' = [x \in DOMAIN index \cup {id} |-> IF x = id THEN el ELSE index[x]]
        /\ recency' = PushFront(recency, el)

(* Stores record under id, and evicts the least recently used element when *)
(* that is one too many.                                                   *)
Put(id, record) ==
    LET el == [id |-> id, record |-> record]
        pushed == PushFront(ll, el)
        indexed == [x \in DOMAIN index \cup {id} |-> IF x = id THEN el ELSE index[x]]
        oldest == pushed[Len(pushed)]
    IN  /\ IF Len(pushed) > Capacity
           THEN /\ ll' = SubSeq(pushed, 1, Len(pushed) - 1)
                /\ index' = [x \in DOMAIN indexed \ {oldest.id} |-> indexed[x]]
           ELSE /\ ll' = pushed
                /\ index' = indexed
        /\ recency' = PushFront(recency, el)

Holds(id) == id \in DOMAIN index

(* Get(id) returns Found(id).record when the store holds id.               *)
Found(id) == index[id]

(* Mutant: a record that is got is no more recently used.                  *)
GetWithoutUse(id) ==
    /\ IF Holds(id)
       THEN recency' = MoveToFront(recency, Found(id))
       ELSE UNCHANGED recency
    /\ UNCHANGED <<ll, index>>

Get(id) == /\ IF Holds(id)
              THEN /\ ll' = MoveToFront(ll, Found(id))
                   /\ recency' = MoveToFront(recency, Found(id))
              ELSE UNCHANGED <<ll, recency>>
           /\ UNCHANGED index

Fresh(id) == \A i \in 1..Len(recency) : recency[i].id # id

Next == \E id \in Ids : \/ Get(id)
                        \/ \E record \in Records : Fresh(id) /\ Put(id, record)

Spec == Init /\ [][Next]_vars
-----------------------------------------------------------------------------
TypeOK == /\ ll \in Seq(Element)
          /\ DOMAIN index \subseteq Ids
          /\ \A id \in DOMAIN index : index[id] \in Element
          /\ recency \in Seq(Element)

(* The store keeps the Capacity most recently used of all the records it   *)
(* was ever given, in order of use, and evicts in no other order           *)
(* (trace.go:52-53, README.md:144).                                        *)
KeepsMostRecent ==
    /\ Len(ll) = IF Len(recency) <= Capacity THEN Len(recency) ELSE Capacity
    /\ \A i \in 1..Len(ll) : ll[i] = recency[i]

(* Index and list agree: each id of the index leads to the list element    *)
(* that carries it, and no element of the list is out of reach.            *)
IndexMatchesList ==
    /\ \A id \in DOMAIN index : \E i \in 1..Len(ll) : ll[i] = index[id] /\ ll[i].id = id
    /\ \A i \in 1..Len(ll) : ll[i].id \in DOMAIN index
=============================================================================
