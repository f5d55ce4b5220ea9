--------------------------------- MODULE Filters ---------------------------------
(***************************************************************************)
(* What a filter lets through, in the order in which it comes:             *)
(* Iterator::filter and its collect, without a fold, so that it can be     *)
(* reasoned about.                                                         *)
(***************************************************************************)
EXTENDS Naturals, Sequences, FiniteSets

(* The places of a set, each after as many as are before it.                *)
Ascending(places) ==
  [k \in 1 .. Cardinality(places) |-> CHOOSE i \in places : Cardinality({j \in places : j < i}) = k - 1]

(* The elements of a sequence at them.                                      *)
Picked(seq, places) ==
  LET order == Ascending(places)
  IN  [k \in 1 .. Len(order) |-> seq[order[k]]]
=============================================================================
