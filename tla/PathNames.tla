----------------------------- MODULE PathNames -----------------------------
(***************************************************************************)
(* Paths, each the sequence of the names that lead to it from "/", and     *)
(* lists of which a loop keeps a part.                                     *)
(***************************************************************************)
EXTENDS Integers, FiniteSets, Sequences, SequencesExt

\* The directories on the way to p, and p.
Ancestors(p) == {SubSeq(p, 1, n) : n \in 1..Len(p)}

\* The numbers of a set, from the least on.
Ascending(I) ==
  [n \in 1..Cardinality(I) |->
     CHOOSE i \in I : Cardinality({j \in I : j <= i}) = n]

\* What is left of a list when a loop over it keeps the positions I.
Keep(list, I) ==
  LET position == Ascending(I)
  IN  [n \in DOMAIN position |-> list[position[n]]]

\* A list without some of its entries.
Without(list, gone) == Keep(list, {i \in DOMAIN list : list[i] \notin gone})
=============================================================================
