------------------------------ MODULE Sublists ------------------------------
(* What a filter leaves of a list: its members at some of its places.  The  *)
(* provers know nothing of SelectSeq, so the filters are written with these. *)
EXTENDS Integers, Sequences, FiniteSetsExt

(* The members of a list at some of its places, in their order.             *)
Sublist(list, places) ==
  LET upto[i \in 0 .. Len(list)] ==
        IF i = 0 THEN << >>
        ELSE IF i \in places THEN Append(upto[i - 1], list[i]) ELSE upto[i - 1]
  IN  upto[Len(list)]

(* The members of a set of numbers, in ascending order.                     *)
Ascending(S) ==
  [p \in 1 .. Cardinality(S) |-> CHOOSE i \in S : Cardinality({j \in S : j < i}) = p - 1]
=============================================================================
