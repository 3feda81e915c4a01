---------------------------- MODULE MCProbeSheet ----------------------------
(* Two nodes that the core accepts: what the sheet probes and what the user *)
(* connects to may differ.                                                  *)
EXTENDS ProbeSheet, TLC

CONSTANTS n1, n2

MCNode == {n1, n2}
MCLists == {<<n1>>, <<n2>>}
MCScope == [auto |-> {n1, n2}]
MCSelection == DOMAIN MCScope
=============================================================================
