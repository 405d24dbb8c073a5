-------------------------------- MODULE Lists --------------------------------
(* What is left of a list when a loop or a search keeps some of its places, *)
(* in their order.  SelectSeq by another definition: one without recursion, *)
(* that can be reasoned about.                                              *)
EXTENDS Naturals, FiniteSets, Sequences

\* The k-th of the places.
Place(places, k) == CHOOSE n \in places : Cardinality({m \in places : m <= n}) = k

Kept(list, places) == [k \in 1 .. Cardinality(places) |-> list[Place(places, k)]]

\* What is left of a list when only the members of S stay: SelectSeq again,
\* by a recursion that can be reasoned about; the list is worked out once.
Chosen(list, S) ==
  LET kept[n \in 0 .. Len(list)] ==
        IF n = 0 THEN <<>> ELSE IF list[n] \in S THEN Append(kept[n - 1], list[n]) ELSE kept[n - 1]
  IN  kept[Len(list)]

Within(list, S) == [l \in {list} |-> Chosen(l, S)][list]
=============================================================================
