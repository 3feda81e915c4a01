------------------------------ MODULE MCEngine ------------------------------
(* Small instances of Engine: a list whose first candidate is refused, and  *)
(* one that is longer than the cap and loses its second to the sanitiser.   *)
EXTENDS Engine, TLC

CONSTANTS n1, n2, n3, n4, c1, c2

MCNode == {n1, n2, n3, n4}
MCRejected == {n2}
MCShortLists == {<<n1, n2, n3>>}
MCLists == {<<n2, n1>>, <<n1, n2, n3, n4>>}
MCCaller == {c1, c2}
MCCallerSymmetry == Permutations(MCCaller)
=============================================================================
