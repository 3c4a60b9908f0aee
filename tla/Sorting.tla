-------------------------------- MODULE Sorting --------------------------------
(***************************************************************************)
(* Sorting and filtering of sequences by a relation given as a set of      *)
(* pairs: what JavaScript's stable sort and filter return.                 *)
(***************************************************************************)
EXTENDS Naturals, Sequences, FiniteSets

(* The elements of S, each at the place that the order R gives it.         *)
Enumerate(S, R) ==
  [i \in 1..Cardinality(S) |-> CHOOSE x \in S : Cardinality({y \in S : <<y, x>> \in R}) = i - 1]

Ascending(S) == Enumerate(S, {p \in S \X S : p[1] < p[2]})

(* The entries of a sequence at some of its places, filtered and sorted.   *)
Keep(list, places) == [i \in 1..Cardinality(places) |-> list[Ascending(places)[i]]]

StableOrder(list, places, R) ==
  {p \in places \X places : \/ <<list[p[1]], list[p[2]]>> \in R
                            \/ list[p[1]] = list[p[2]] /\ p[1] < p[2]}
StableSort(list, places, R) ==
  LET order == Enumerate(places, StableOrder(list, places, R)) IN
  [i \in 1..Cardinality(places) |-> list[order[i]]]
===============================================================================
