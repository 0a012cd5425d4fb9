--------------------------------- MODULE Orders ---------------------------------
(***************************************************************************)
(* The members of a finite set as a sequence, in a given order.  Every list    *)
(* the runner sorts or picks the n-th of is one of these (the corpus of          *)
(* crates/estamora-vectors: loader.rs, the events of a name of                    *)
(* crates/estamora-assertions: observation.rs).  An order is a set of pairs.      *)
(***************************************************************************)
EXTENDS Naturals, FiniteSets

\* The k-th member is the one with k - 1 before it.
Ordered(S, before) ==
  [k \in 1..Cardinality(S) |-> CHOOSE x \in S : Cardinality({y \in S : <<y, x>> \in before}) = k - 1]

\* Of a set of places in a sequence, the k-th, from the front.
Place(places, k) == Ordered(places, {p \in places \X places : p[1] < p[2]})[k]
=============================================================================
