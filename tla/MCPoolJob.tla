----------------------------- MODULE MCPoolJob ------------------------------
(* Two nodes, one of a state of before first_run, over hours enough to miss a *)
(* run and to be forgotten.                                                  *)
EXTENDS PoolJob, TLC

CONSTANTS n1, n2, j1, j2

MCHour == 0 .. 3
MCSymmetry == Permutations({j1, j2})
=============================================================================
