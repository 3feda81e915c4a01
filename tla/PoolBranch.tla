----------------------------- MODULE PoolBranch -----------------------------
(* What the collect-nodes workflow promises of the pool-data branch: it     *)
(* changes only as a whole, by a run that observed it as it was and found   *)
(* enough nodes.                                                            *)
EXTENDS Seen, FiniteSets

CONSTANTS Node,       \* stable ids
          MinNodes,   \* --min-nodes
          Hour,       \* the hours a run may take place in
          Legacy      \* nodes of a first state file without first_run

ASSUME BranchAssumption ==
  /\ Hour \subseteq Nat /\ 0 \in Hour
  /\ MinNodes \in Nat
  /\ Legacy \subseteq Node

VARIABLE branch       \* exists; nodes_pool.json; state/seen.json; generated_at

Threshold == AtLeastOne(MinNodes)

(* The lifetime block of each node of a pool.                               *)
PoolOf(kept, seen, now) == [n \in kept |-> LifetimeFor(seen, n, now)]

LegacySeen ==
  [runs_total |-> 1,
   nodes |-> [n \in Legacy |-> [first_seen |-> 0, last_seen |-> 0, seen_runs |-> 1,
                                first_run |-> NoRun]]]

NoBranch == [exists |-> FALSE, pool |-> PoolOf({}, EmptySeen, 0), seen |-> EmptySeen, at |-> 0]

LegacyBranch ==
  [exists |-> TRUE, pool |-> PoolOf(Legacy, LegacySeen, 0), seen |-> LegacySeen, at |-> 0]

After(old, kept, now) ==
  LET seen == Observe(old.seen, kept, now)
  IN  [exists |-> TRUE, pool |-> PoolOf(kept, seen, now), seen |-> seen, at |-> now]

(* No branch yet, or one with a state of before first_run.                  *)
BranchInit == branch = NoBranch \/ branch = LegacyBranch

Replace ==
  \E kept \in SUBSET Node, now \in Hour :
    /\ Cardinality(kept) >= Threshold
    /\ now >= branch.at
    /\ branch' = After(branch, kept, now)

BranchSpec == BranchInit /\ [][Replace]_branch
=============================================================================
