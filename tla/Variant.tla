------------------------------ MODULE Variant ------------------------------
(***************************************************************************)
(* The order in which a measure runs down: tuples of natural numbers, the  *)
(* first component that differs decides.  A component may grow as long as  *)
(* one before it shrinks, as when a lookup, paid for from the budget,      *)
(* brings any number of new hosts to try.                                  *)
(***************************************************************************)
EXTENDS Integers

Measures(n) == [1..n -> Nat]

Below(s, t) == \E i \in DOMAIN t : s[i] < t[i] /\ \A j \in 1..i - 1 : s[j] = t[j]

(* 1 while something is still to come.                                     *)
AsLongAs(condition) == IF condition THEN 1 ELSE 0
=============================================================================
