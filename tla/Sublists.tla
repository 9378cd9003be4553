------------------------------ MODULE Sublists ------------------------------
(***************************************************************************)
(* What is left of a list when some positions are dropped, in its order:   *)
(* the SelectSeq of Sequences without its recursion, which the provers     *)
(* cannot expand.                                                          *)
(***************************************************************************)
EXTENDS Naturals, FiniteSets

Rank(kept, i) == Cardinality({j \in kept : j <= i})

Keep(list, kept) ==
  IF kept = DOMAIN list
    THEN list
    ELSE [n \in 1..Cardinality(kept) |-> list[CHOOSE i \in kept : Rank(kept, i) = n]]
=============================================================================
