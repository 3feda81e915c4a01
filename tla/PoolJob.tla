------------------------------- MODULE PoolJob -------------------------------
(* .github/workflows/collect-nodes.yml around `weronity-collector run`: jobs *)
(* on fresh machines that seed the observation state from the pool-data      *)
(* branch, collect, and replace the branch.  A machine may die at any step.  *)
EXTENDS PoolBranch, Sequences

CONSTANTS Job,        \* triggered by the schedule or by hand
          MaxRuns     \* bound on publications

ASSUME JobAssumption == MaxRuns \in Nat

VARIABLES clock,
          pc,         \* the step each job is at
          local,      \* its machine: pool-data, state/seen.json, out/nodes_pool.json
          log         \* observer: the nodes that each published run kept

vars == <<branch, clock, pc, local, log>>

Step == {"idle", "ls_remote", "checkout", "seed", "geoip", "build", "write", "validate",
         "publish"}

(* A machine before its job: no files.                                      *)
NoFiles == [data  |-> NoBranch,
            seen  |-> [readable |-> FALSE, seen |-> EmptySeen],
            pool  |-> PoolOf({}, EmptySeen, 0),
            at    |-> 0]

Init ==
  /\ BranchInit
  /\ clock = 0
  /\ pc = [j \in Job |-> "idle"]
  /\ local = [j \in Job |-> NoFiles]
  /\ log = IF branch.exists THEN <<Legacy>> ELSE << >>

(* Wrong: no concurrency group. *)
GroupOpen == TRUE

(* One job of the concurrency group at a time, and none is cancelled.       *)
GroupFree == \A j \in Job : pc[j] = "idle"

(* The job is over and its machine is gone. *)
Discard(j) ==
  /\ pc' = [pc EXCEPT ![j] = "idle"]
  /\ local' = [local EXCEPT ![j] = NoFiles]

Trigger(j) ==
  /\ pc[j] = "idle"
  /\ GroupFree
  /\ pc' = [pc EXCEPT ![j] = "ls_remote"]
  /\ UNCHANGED <<branch, clock, local, log>>

(* Wrong: a failed ls-remote passes for a missing branch. *)
AfterLsRemoteLax == IF branch.exists THEN {"checkout", "seed"} ELSE {"seed"}

(* The step after git ls-remote: a branch that is missing is a first run.   *)
AfterLsRemote == IF branch.exists THEN {"checkout"} ELSE {"seed"}

LsRemote(j) ==
  /\ pc[j] = "ls_remote"
  /\ \E next \in AfterLsRemote : pc' = [pc EXCEPT ![j] = next]
  /\ UNCHANGED <<branch, clock, local, log>>

Checkout(j) ==
  /\ pc[j] = "checkout"
  /\ local' = [local EXCEPT ![j].data = branch]
  /\ pc' = [pc EXCEPT ![j] = "seed"]
  /\ UNCHANGED <<branch, clock, log>>

(* cp pool-data/state/seen.json, if it is there.                             *)
SeedState(j) ==
  /\ pc[j] = "seed"
  /\ local' = [local EXCEPT ![j].seen = [readable |-> local[j].data.exists,
                                         seen     |-> local[j].data.seen]]
  /\ pc' = [pc EXCEPT ![j] = "geoip"]
  /\ UNCHANGED <<branch, clock, log>>

(* fetch_geoip.py: every database or a failed step.  Beyond the bound on     *)
(* publications every job fails here.                                       *)
FetchGeoip(j) ==
  /\ pc[j] = "geoip"
  /\ Len(log) < MaxRuns
  /\ pc' = [pc EXCEPT ![j] = "build"]
  /\ UNCHANGED <<branch, clock, local, log>>

(* build_pool from the load of seen.json to its save: `kept` are the nodes  *)
(* that answered, and with keep_dead any others.                            *)
BuildPool(j) ==
  /\ pc[j] = "build"
  /\ \E kept \in SUBSET Node :
       LET seen == Observe(Load(local[j].seen), kept, clock)
       IN  local' = [local EXCEPT ![j] = [data |-> @.data,
                                          seen |-> [readable |-> TRUE, seen |-> seen],
                                          pool |-> PoolOf(kept, seen, clock),
                                          at   |-> clock]]
  /\ pc' = [pc EXCEPT ![j] = "write"]
  /\ UNCHANGED <<branch, clock, log>>

(* pool.stats.total against --min-nodes. *)
Enough(pool) == Cardinality(DOMAIN pool) >= Threshold

(* cmd_run: exit code 3, or the pool is written. *)
WritePool(j) ==
  /\ pc[j] = "write"
  /\ \/ /\ Enough(local[j].pool)
        /\ pc' = [pc EXCEPT ![j] = "validate"]
        /\ UNCHANGED local
     \/ /\ ~Enough(local[j].pool)
        /\ Discard(j)
  /\ UNCHANGED <<branch, clock, log>>

(* weronity_collector validate and stats: both read what was just written.  *)
Validate(j) ==
  /\ pc[j] = "validate"
  /\ pc' = [pc EXCEPT ![j] = "publish"]
  /\ UNCHANGED <<branch, clock, local, log>>

(* Wrong: the state file stays what was checked out. *)
PushedPoolOnly(here) ==
  [exists |-> TRUE, pool |-> here.pool, seen |-> here.data.seen, at |-> here.at]

(* Both files in a commit of their own, pushed over the branch. *)
Pushed(here) == [exists |-> TRUE, pool |-> here.pool, seen |-> here.seen.seen, at |-> here.at]

Publish(j) ==
  /\ pc[j] = "publish"
  /\ branch' = Pushed(local[j])
  /\ log' = Append(log, DOMAIN local[j].pool)
  /\ Discard(j)
  /\ UNCHANGED clock

(* A step exits non-zero, cmd_run answers 2, the machine dies. *)
Fail(j) ==
  /\ pc[j] # "idle"
  /\ Discard(j)
  /\ UNCHANGED <<branch, clock, log>>

Tick ==
  /\ clock + 1 \in Hour
  /\ clock' = clock + 1
  /\ UNCHANGED <<branch, pc, local, log>>

JobStep(j) ==
  \/ LsRemote(j) \/ Checkout(j) \/ SeedState(j) \/ FetchGeoip(j)
  \/ BuildPool(j) \/ WritePool(j) \/ Validate(j) \/ Publish(j)

Next == Tick \/ \E j \in Job : Trigger(j) \/ JobStep(j) \/ Fail(j)

Spec == Init /\ [][Next]_vars

-----------------------------------------------------------------------------
(* Properties *)

Entry == [first_seen : Hour, last_seen : Hour, seen_runs : Nat, first_run : Nat]

IsHistory(h) ==
  /\ h = [runs_total |-> h.runs_total, nodes |-> h.nodes]
  /\ h.runs_total \in Nat
  /\ \E S \in SUBSET Node : h.nodes \in [S -> Entry]

Lifetime == [first_seen : Hour, last_seen : Hour,
             class : {"fresh", "short_lived", "long_lived"},
             seen_runs : Nat, stability : 0 .. Scale]

IsPool(p) == \E S \in SUBSET Node : p \in [S -> Lifetime]

IsBranch(b) ==
  /\ b = [exists |-> b.exists, pool |-> b.pool, seen |-> b.seen, at |-> b.at]
  /\ b.exists \in BOOLEAN /\ IsPool(b.pool) /\ IsHistory(b.seen) /\ b.at \in Hour

IsFiles(f) ==
  /\ f = [data |-> f.data, seen |-> f.seen, pool |-> f.pool, at |-> f.at]
  /\ IsBranch(f.data)
  /\ f.seen = [readable |-> f.seen.readable, seen |-> f.seen.seen]
  /\ f.seen.readable \in BOOLEAN /\ IsHistory(f.seen.seen)
  /\ IsPool(f.pool) /\ f.at \in Hour

TypeOK ==
  /\ IsBranch(branch)
  /\ clock \in Hour
  /\ pc \in [Job -> Step]
  /\ local = [j \in Job |-> local[j]] /\ \A j \in Job : IsFiles(local[j])
  /\ log \in Seq(SUBSET Node)

(* The pool and the observation state that clients and the next run find on *)
(* the branch are of the same run: a node's lifetime in the pool is the one *)
(* its entry gives (collect-nodes.yml, "Publish to pool-data branch").      *)
PoolMatchesSeen ==
  \A n \in DOMAIN branch.pool :
    /\ n \in DOMAIN branch.seen.nodes
    /\ branch.pool[n] = LifetimeFor(branch.seen, n, branch.at)

(* The run an entry says its node appeared in: one of before first_run was   *)
(* in the first.                                                             *)
Since(e) == IF e.first_run = NoRun THEN 1 ELSE e.first_run

(* The published runs from the first-th on that kept a node. *)
Runs(runs, first, n) == {r \in first .. Len(runs) : n \in runs[r]}

(* Every entry counts the published runs that kept its node since it        *)
(* appeared, over failed runs, absences and forgetting: lifetime.py's share  *)
(* "of the runs since it appeared".                                          *)
CountsRuns ==
  \A n \in DOMAIN branch.seen.nodes :
    LET e == branch.seen.nodes[n]
    IN  /\ Since(e) \in 1 .. Len(log)
        /\ n \in log[Since(e)]
        /\ e.seen_runs = Cardinality(Runs(log, Since(e), n))

(* A share lies between nothing and all of the runs since the node appeared, *)
(* without the cap of lifetime_for ever biting.                              *)
ShareOfRuns ==
  \A n \in DOMAIN branch.seen.nodes :
    LET e == branch.seen.nodes[n]
    IN  e.seen_runs \in 1 .. branch.seen.runs_total - FirstRun(branch.seen, n) + 1

(* The branch only ever changes as PoolBranch says: no run's observation is *)
(* lost, no history reset, no pool replaced by one that is too small.       *)
ImplementsBranch == BranchSpec

(* A node that every published run since it appeared kept is shown as one    *)
(* that never failed, and no other is in its first 2 * Scale - 1 runs; from  *)
(* then on a single missed run is rounded away.  An entry of before          *)
(* first_run is another matter: FirstRun takes it to have been there always. *)
MissedRunsShow ==
  \A n \in DOMAIN branch.pool :
    LET e    == branch.seen.nodes[n]
        all  == e.first_run .. Len(log)
        full == branch.pool[n].stability = Scale
    IN  e.first_run # NoRun =>
          /\ Runs(log, e.first_run, n) = all => full
          /\ full /\ Len(log) - e.first_run + 1 < 2 * Scale => Runs(log, e.first_run, n) = all
=============================================================================
