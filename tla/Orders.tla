-------------------------------- MODULE Orders --------------------------------
(***************************************************************************)
(* Array.sort and Array.filter.  Places are found by counting what comes   *)
(* before, so that theorems can be proved: of SortSeq and SelectSeq the    *)
(* provers know no definition.                                             *)
(***************************************************************************)
EXTENDS Integers, FiniteSets

\* The elements of S in the order of a set of pairs.
Arranged(S, before) ==
  LET place(x) == Cardinality({y \in S : <<y, x>> \in before}) + 1
  IN  [n \in 1..Cardinality(S) |-> CHOOSE x \in S : place(x) = n]

\* The elements of a list at some of its places.
Picked(list, places) ==
  LET order == Arranged(places, {pair \in places \X places : pair[1] < pair[2]})
  IN  [n \in DOMAIN order |-> list[order[n]]]
===============================================================================
