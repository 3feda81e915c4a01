------------------------------ MODULE MCBridge ------------------------------
(* Small instances of Bridge: three nodes, of which the core refuses n3, so  *)
(* it is fatal as the wanted node and dropped as a backup.                   *)
EXTENDS Bridge, TLC

CONSTANTS n1, n2, n3

MCNode == {n1, n2, n3}
MCRejected == {n3}
MCLists == {<<n1>>, <<n1, n3, n2>>, <<n2, n1>>, <<n3, n1>>}
MCScope == [auto |-> {n1, n3}, country |-> {n2}]
MCSelection == DOMAIN MCScope
MCCall == 1 .. 2
=============================================================================
