---------------------------- MODULE PoolJobProofs ----------------------------
(* The job of PoolJob implements PoolBranch, and what the branch shows.      *)
EXTENDS PoolJob, FiniteSetTheorems, TLAPS

(* The assumptions on the constants. *)
LEMMA Constants ==
  /\ Window \in Nat
  /\ \A h \in Hour : h \in Nat
  /\ 0 \in Hour
  /\ MinNodes \in Nat
  /\ Legacy \subseteq Node
BY SeenAssumption, BranchAssumption

USE Constants

(* What a job holds at each step, measured by the branch: it is alone, so    *)
(* the branch is still what it checked out.                                 *)
Alone == \A i, j \in Job : pc[i] # "idle" /\ pc[j] # "idle" => i = j

HasBuilt(j) == pc[j] \in {"write", "validate", "publish"}

BuiltOn(j, kept) ==
  /\ local[j].seen.seen = Observe(branch.seen, kept, local[j].at)
  /\ local[j].pool = PoolOf(kept, local[j].seen.seen, local[j].at)
  /\ branch.at <= local[j].at /\ local[j].at <= clock
  /\ pc[j] # "write" => Cardinality(kept) >= Threshold

JobOK(j) ==
  /\ pc[j] \in {"idle", "ls_remote"} => local[j] = NoFiles
  /\ pc[j] = "seed" => branch.seen = IF local[j].data.exists THEN local[j].data.seen
                                     ELSE EmptySeen
  /\ pc[j] = "checkout" => branch.exists
  /\ pc[j] \in {"geoip", "build"} => Load(local[j].seen) = branch.seen
  /\ HasBuilt(j) => \E kept \in SUBSET Node : BuiltOn(j, kept)

IInv ==
  /\ TypeOK
  /\ Alone
  /\ ~branch.exists => branch.seen = EmptySeen
  /\ branch.at <= clock
  /\ \A j \in Job : JobOK(j)

-----------------------------------------------------------------------------
(* What the operators of Seen yield. *)

LEMMA EmptyTyped == IsHistory(EmptySeen) /\ IsPool(PoolOf({}, EmptySeen, 0))
<1>1. [n \in {} |-> {}] \in [{} -> Entry]
  OBVIOUS
<1>2. PoolOf({}, EmptySeen, 0) \in [{} -> Lifetime]
  BY DEF PoolOf
<1> QED BY <1>1, <1>2 DEF IsHistory, IsPool, EmptySeen

LEMMA AgainTyped ==
  ASSUME NEW e \in Entry, NEW now \in Hour
  PROVE  /\ SeenAgain(e, now) \in Entry
         /\ SeenAgain(e, now).last_seen = now
         /\ SeenAgain(e, now).seen_runs = e.seen_runs + 1
         /\ SeenAgain(e, now).first_run = e.first_run
<1>1. SeenAgain(e, now) = [e EXCEPT !.last_seen = now, !.seen_runs = e.seen_runs + 1]
  BY DEF SeenAgain
<1>2. e.seen_runs + 1 \in Nat
  BY DEF Entry
<1> QED BY <1>1, <1>2 DEF Entry

(* A node that is observed stays: its entry is of now. *)
LEMMA KeptObserved ==
  ASSUME NEW h, IsHistory(h), NEW kept \in SUBSET Node, NEW now \in Hour
  PROVE  kept \subseteq DOMAIN Observe(h, kept, now).nodes
<1> DEFINE run == h.runs_total + 1
           E(n) == IF n \notin DOMAIN h.nodes THEN FirstSeen(now, run)
                   ELSE IF n \in kept THEN SeenAgain(h.nodes[n], now) ELSE h.nodes[n]
           nodes == [n \in DOMAIN h.nodes \cup kept |-> E(n)]
<1>1. Observe(h, kept, now).nodes = Pruned(nodes, now)
  BY DEF Observe
<1>2. ASSUME NEW n \in kept PROVE nodes[n].last_seen = now
  <2>1. CASE n \notin DOMAIN h.nodes
    BY <2>1 DEF FirstSeen
  <2>2. CASE n \in DOMAIN h.nodes
    <3>1. h.nodes[n] \in Entry
      BY <2>2 DEF IsHistory
    <3>2. SeenAgain(h.nodes[n], now).last_seen = now
      BY <3>1, AgainTyped
    <3> QED BY <2>2, <3>2
  <2> QED BY <2>1, <2>2
<1>3. ASSUME NEW n \in kept PROVE nodes[n].last_seen >= now - Window
  BY <1>2, <1>3
<1> HIDE DEF nodes
<1>4. kept \subseteq DOMAIN nodes
  BY DEF nodes
<1> QED BY <1>1, <1>3, <1>4 DEF Pruned

LEMMA ObserveTyped ==
  ASSUME NEW h, IsHistory(h), NEW kept \in SUBSET Node, NEW now \in Hour
  PROVE  IsHistory(Observe(h, kept, now))
<1> DEFINE run == h.runs_total + 1
           E(n) == IF n \notin DOMAIN h.nodes THEN FirstSeen(now, run)
                   ELSE IF n \in kept THEN SeenAgain(h.nodes[n], now) ELSE h.nodes[n]
           nodes == [n \in DOMAIN h.nodes \cup kept |-> E(n)]
<1>1. Observe(h, kept, now) = [runs_total |-> run, nodes |-> Pruned(nodes, now)]
  BY DEF Observe
<1>2. run \in Nat
  BY DEF IsHistory
<1>3. PICK S \in SUBSET Node : h.nodes \in [S -> Entry]
  BY DEF IsHistory
<1>4. ASSUME NEW n \in S \cup kept PROVE E(n) \in Entry
  <2>1. CASE n \notin S
    BY <1>2, <1>3, <2>1 DEF FirstSeen, Entry
  <2>2. CASE n \in S
    <3>1. h.nodes[n] \in Entry
      BY <1>3, <2>2
    <3>2. SeenAgain(h.nodes[n], now) \in Entry
      BY <3>1, AgainTyped
    <3> QED BY <1>3, <2>2, <3>1, <3>2
  <2> QED BY <2>1, <2>2
<1>5. nodes \in [S \cup kept -> Entry]
  BY <1>3, <1>4
<1> HIDE DEF nodes, run
<1>6. Pruned(nodes, now) \in [DOMAIN Pruned(nodes, now) -> Entry]
      /\ DOMAIN Pruned(nodes, now) \subseteq S \cup kept
  BY <1>5 DEF Pruned
<1>7. DOMAIN Pruned(nodes, now) \in SUBSET Node
  BY <1>6
<1> QED BY <1>1, <1>2, <1>6, <1>7 DEF IsHistory

(* Where an entry comes from. *)
LEMMA EntryObserved ==
  ASSUME NEW h, IsHistory(h), NEW kept \in SUBSET Node, NEW now \in Hour,
         NEW n \in DOMAIN Observe(h, kept, now).nodes
  PROVE  LET new == Observe(h, kept, now).nodes[n]
         IN  \/ n \in kept /\ new = FirstSeen(now, h.runs_total + 1)
             \/ n \in DOMAIN h.nodes \cap kept /\ new = SeenAgain(h.nodes[n], now)
             \/ n \in DOMAIN h.nodes \ kept /\ new = h.nodes[n]
BY DEF Observe, Pruned

(* Rounding a share: what is all stays all, and what is not all reaches it   *)
(* only when it is one of very many.                                         *)
LEMMA RoundedTyped ==
  ASSUME NEW up \in Nat, NEW of \in Nat \ {0}
  PROVE  Rounded(up, of) \in Nat
<1>1. Scale \in Nat
  BY SeenAssumption
<1>2. 2 * Scale * up + of \in Nat /\ 2 * of \in Nat \ {0}
  BY <1>1
<1>3. \A a \in Nat, b \in Nat \ {0} : a \div b \in Nat
  OBVIOUS
<1> QED BY <1>2, <1>3 DEF Rounded

LEMMA AllIsAll ==
  ASSUME NEW of \in Nat \ {0}
  PROVE  Rounded(of, of) = Scale
<1>1. Scale \in Nat
  BY SeenAssumption
<1>2. \A k \in Nat, r \in Nat, b \in Nat \ {0} : r < b => (b * k + r) \div b = k
  OBVIOUS
<1>3. 2 * Scale * of + of = (2 * of) * Scale + of
  BY <1>1
<1>4. of \in Nat /\ 2 * of \in Nat \ {0} /\ of < 2 * of
  OBVIOUS
<1>5. ((2 * of) * Scale + of) \div (2 * of) = Scale
  BY <1>1, <1>2, <1>4
<1> QED BY <1>3, <1>5 DEF Rounded

LEMMA LessIsLess ==
  ASSUME NEW of \in Nat \ {0}, NEW up \in Nat, up < of, of < 2 * Scale
  PROVE  Rounded(up, of) < Scale
<1>1. Scale \in Nat
  BY SeenAssumption
<1> DEFINE a == 2 * Scale * up + of
           b == 2 * of
<1>2. a \in Nat /\ b \in Nat \ {0}
  BY <1>1
<1>3. a < b * Scale
  <2>1. (2 * Scale) * (of - up) >= 2 * Scale
    <3>1. 2 * Scale \in Nat /\ of - up \in Nat \ {0}
      BY <1>1
    <3>2. \A x \in Nat, y \in Nat \ {0} : x * y >= x
      OBVIOUS
    <3> QED BY <3>1, <3>2
  <2>2. b * Scale - 2 * Scale * up = (2 * Scale) * (of - up)
    BY <1>1
  <2> QED BY <1>1, <1>2, <2>1, <2>2
<1>4. \A x \in Nat, y \in Nat \ {0}, s \in Nat : x < y * s => x \div y < s
  OBVIOUS
<1> HIDE DEF a, b
<1>5. a \div b < Scale
  BY <1>1, <1>2, <1>3, <1>4
<1> QED BY <1>5 DEF Rounded, a, b

LEMMA LifetimeTyped ==
  ASSUME NEW h, IsHistory(h), NEW n \in DOMAIN h.nodes, NEW now \in Hour
  PROVE  LifetimeFor(h, n, now) \in Lifetime
<1>1. h.nodes[n] \in Entry
  BY DEF IsHistory
<1>2. FirstRun(h, n) \in Int
  BY <1>1 DEF FirstRun, NoRun, Entry, IsHistory
<1>3. Stability(h, n) \in 0 .. Scale
  <2> DEFINE since == AtLeastOne(h.runs_total - AtLeastOne(FirstRun(h, n)) + 1)
  <2>1. since \in Nat \ {0} /\ h.nodes[n].seen_runs \in Nat
    BY <1>1, <1>2 DEF AtLeastOne, Entry, IsHistory
  <2> HIDE DEF since
  <2>2. Rounded(h.nodes[n].seen_runs, since) \in Nat
    BY <2>1, RoundedTyped
  <2>3. AtMostAll(Rounded(h.nodes[n].seen_runs, since)) \in 0 .. Scale
    BY <2>2, SeenAssumption DEF AtMostAll
  <2> QED BY <2>3 DEF Stability, since
<1>4. \A age \in Int : ClassifyAge(age) \in {"fresh", "short_lived", "long_lived"}
  BY DEF ClassifyAge
<1>5. h.nodes[n].first_seen \in Int /\ now \in Int
  BY <1>1 DEF Entry
<1> DEFINE age == IF now >= h.nodes[n].first_seen THEN now - h.nodes[n].first_seen ELSE 0
<1>6. age \in Int
  BY <1>5
<1>7. LifetimeFor(h, n, now)
        = [first_seen |-> h.nodes[n].first_seen, last_seen |-> h.nodes[n].last_seen,
           class |-> ClassifyAge(age), seen_runs |-> h.nodes[n].seen_runs,
           stability |-> Stability(h, n)]
  BY DEF LifetimeFor
<1> HIDE DEF age
<1> QED BY <1>1, <1>3, <1>4, <1>6, <1>7 DEF Lifetime, Entry

LEMMA PoolTyped ==
  ASSUME NEW h, IsHistory(h), NEW kept \in SUBSET Node, NEW now \in Hour,
         kept \subseteq DOMAIN h.nodes
  PROVE  IsPool(PoolOf(kept, h, now))
<1>1. PoolOf(kept, h, now) \in [kept -> Lifetime]
  BY LifetimeTyped DEF PoolOf
<1> QED BY <1>1 DEF IsPool

-----------------------------------------------------------------------------
(* Where a job begins and ends. *)

LEMMA NoBranchTyped == IsBranch(NoBranch)
<1>1. NoBranch = [exists |-> FALSE, pool |-> PoolOf({}, EmptySeen, 0), seen |-> EmptySeen, at |-> 0]
  BY DEF NoBranch
<1> QED BY <1>1, EmptyTyped DEF IsBranch

LEMMA NoFilesTyped == IsFiles(NoFiles)
<1> DEFINE noSeen == [readable |-> FALSE, seen |-> EmptySeen]
<1>1. NoFiles = [data |-> NoBranch, seen |-> noSeen, pool |-> PoolOf({}, EmptySeen, 0),
                 at |-> 0]
  BY DEF NoFiles
<1>2. noSeen.readable = FALSE /\ noSeen.seen = EmptySeen
      /\ noSeen = [readable |-> noSeen.readable, seen |-> noSeen.seen]
  OBVIOUS
<1> HIDE DEF noSeen
<1> QED BY <1>1, <1>2, NoBranchTyped, EmptyTyped DEF IsFiles

LEMMA LegacyTyped == IsHistory(LegacySeen) /\ Legacy = DOMAIN LegacySeen.nodes
<1> DEFINE old == [first_seen |-> 0, last_seen |-> 0, seen_runs |-> 1, first_run |-> NoRun]
           nodes == [n \in Legacy |-> old]
<1>1. LegacySeen = [runs_total |-> 1, nodes |-> nodes]
  BY DEF LegacySeen
<1>2. old \in Entry
  BY DEF Entry, NoRun
<1> HIDE DEF old
<1>3. nodes \in [Legacy -> Entry]
  BY <1>2
<1> HIDE DEF nodes
<1> QED BY <1>1, <1>3 DEF IsHistory

LEMMA LegacyBranchTyped == IsBranch(LegacyBranch) /\ LegacyBranch.exists /\ LegacyBranch.at = 0
<1>1. LegacyBranch = [exists |-> TRUE, pool |-> PoolOf(Legacy, LegacySeen, 0),
                      seen |-> LegacySeen, at |-> 0]
  BY DEF LegacyBranch
<1>2. IsPool(PoolOf(Legacy, LegacySeen, 0))
  BY LegacyTyped, PoolTyped
<1> QED BY <1>1, <1>2, LegacyTyped DEF IsBranch

LEMMA FirstBranchTyped ==
  ASSUME BranchInit
  PROVE  /\ IsBranch(branch) /\ branch.at = 0
         /\ ~branch.exists => branch.seen = EmptySeen
<1>1. NoBranch.at = 0 /\ NoBranch.seen = EmptySeen
  BY DEF NoBranch
<1>2. CASE branch = NoBranch
  BY <1>1, <1>2, NoBranchTyped
<1>3. CASE branch = LegacyBranch
  BY <1>3, LegacyBranchTyped
<1> QED BY <1>2, <1>3 DEF BranchInit

-----------------------------------------------------------------------------
(* A job moves on. *)

LEMMA Moves ==
  ASSUME IInv, NEW j \in Job, pc[j] # "idle", NEW step \in Step \ {"idle"}, NEW f, IsFiles(f),
         pc' = [pc EXCEPT ![j] = step], local' = [local EXCEPT ![j] = f],
         UNCHANGED <<branch, clock, log>>,
         JobOK(j)'
  PROVE  IInv'
<1>1. TypeOK'
  BY DEF IInv, TypeOK
<1>2. Alone'
  BY DEF IInv, Alone, TypeOK
<1>3. \A i \in Job : JobOK(i)'
  <2> SUFFICES ASSUME NEW i \in Job, i # j PROVE JobOK(i)'
    OBVIOUS
  <2>1. pc'[i] = pc[i] /\ local'[i] = local[i] /\ JobOK(i)
    BY DEF IInv, TypeOK
  <2> QED BY <2>1 DEF JobOK, BuiltOn, HasBuilt
<1> QED BY <1>1, <1>2, <1>3 DEF IInv

(* A job ends: all are idle. *)
LEMMA Ends ==
  ASSUME IInv, NEW j \in Job, pc[j] # "idle", Discard(j), UNCHANGED clock,
         IsBranch(branch'), branch'.at <= clock, ~branch'.exists => branch'.seen = EmptySeen,
         log' \in Seq(SUBSET Node)
  PROVE  IInv'
<1>1. TypeOK'
  BY NoFilesTyped DEF IInv, TypeOK, Discard, Step
<1>2. \A i \in Job : pc'[i] = "idle" /\ local'[i] = NoFiles
  BY DEF IInv, TypeOK, Discard, Alone, JobOK
<1>3. Alone' /\ \A i \in Job : JobOK(i)'
  BY <1>2 DEF Alone, JobOK, HasBuilt
<1> QED BY <1>1, <1>3 DEF IInv

LEMMA Begins ==
  ASSUME IInv, NEW j \in Job, Trigger(j)
  PROVE  IInv'
<1>2. TypeOK'
  BY DEF IInv, TypeOK, Trigger, Step
<1>3. Alone'
  BY DEF Trigger, GroupFree, Alone, IInv, TypeOK
<1>4. \A i \in Job : JobOK(i)'
  <2>1. ASSUME NEW i \in Job
        PROVE  pc'[i] \in {"idle", "ls_remote"} /\ local'[i] = NoFiles
    BY DEF IInv, TypeOK, Trigger, GroupFree, JobOK
  <2> QED BY <2>1 DEF JobOK, HasBuilt
<1> QED BY <1>2, <1>3, <1>4 DEF IInv, Trigger

-----------------------------------------------------------------------------
(* The steps of a job. *)

LEMMA LsRemoteSteps ==
  ASSUME IInv, NEW j \in Job, LsRemote(j)
  PROVE  IInv'
<1>1. PICK next \in AfterLsRemote : pc' = [pc EXCEPT ![j] = next]
  BY DEF LsRemote
<1>2. next \in {"checkout", "seed"} /\ (next = "checkout" <=> branch.exists)
  BY DEF AfterLsRemote
<1>3. pc[j] = "ls_remote" /\ local[j] = NoFiles /\ UNCHANGED <<branch, clock, local, log>>
  BY DEF LsRemote, IInv, JobOK
<1>4. local' = [local EXCEPT ![j] = NoFiles]
  BY <1>3 DEF IInv, TypeOK
<1>5. pc'[j] = next
  BY <1>1 DEF IInv, TypeOK
<1>6. JobOK(j)'
  BY <1>2, <1>3, <1>5 DEF JobOK, HasBuilt, IInv, NoFiles, NoBranch
<1> QED BY <1>1, <1>2, <1>3, <1>4, <1>6, NoFilesTyped, Moves DEF Step

LEMMA CheckoutSteps ==
  ASSUME IInv, NEW j \in Job, Checkout(j)
  PROVE  IInv'
<1> DEFINE f == [local[j] EXCEPT !.data = branch]
<1>1. /\ pc[j] = "checkout" /\ pc' = [pc EXCEPT ![j] = "seed"]
      /\ local' = [local EXCEPT ![j] = f]
      /\ UNCHANGED <<branch, clock, log>>
  BY DEF Checkout
<1>2. IsFiles(local[j]) /\ IsBranch(branch) /\ branch.exists
  BY <1>1 DEF IInv, TypeOK, JobOK
<1>3. IsFiles(f)
  BY <1>2 DEF IsFiles
<1>4. f.data = branch
  BY <1>2 DEF IsFiles
<1>5. pc'[j] = "seed" /\ local'[j] = f
  BY <1>1 DEF IInv, TypeOK
<1> HIDE DEF f
<1>6. JobOK(j)'
  BY <1>1, <1>2, <1>4, <1>5 DEF JobOK, HasBuilt
<1> QED BY <1>1, <1>3, <1>6, Moves DEF Step

LEMMA SeedSteps ==
  ASSUME IInv, NEW j \in Job, SeedState(j)
  PROVE  IInv'
<1> DEFINE file == [readable |-> local[j].data.exists, seen |-> local[j].data.seen]
           f == [local[j] EXCEPT !.seen = file]
<1>1. /\ pc[j] = "seed" /\ pc' = [pc EXCEPT ![j] = "geoip"]
      /\ local' = [local EXCEPT ![j] = f]
      /\ UNCHANGED <<branch, clock, log>>
  BY DEF SeedState
<1>2. IsFiles(local[j])
  BY DEF IInv, TypeOK
<1>3. /\ file.readable \in BOOLEAN /\ IsHistory(file.seen)
      /\ file = [readable |-> file.readable, seen |-> file.seen]
      /\ Load(file) = IF local[j].data.exists THEN local[j].data.seen ELSE EmptySeen
  BY <1>2 DEF IsFiles, IsBranch, Load
<1> HIDE DEF file
<1>4. IsFiles(f) /\ f.seen = file
  BY <1>2, <1>3 DEF IsFiles
<1>5. pc'[j] = "geoip" /\ local'[j] = f
  BY <1>1 DEF IInv, TypeOK
<1> HIDE DEF f
<1>6. JobOK(j)'
  BY <1>1, <1>3, <1>4, <1>5 DEF JobOK, HasBuilt, IInv
<1> QED BY <1>1, <1>4, <1>6, Moves DEF Step

LEMMA FetchSteps ==
  ASSUME IInv, NEW j \in Job, FetchGeoip(j)
  PROVE  IInv'
<1>1. /\ pc[j] = "geoip" /\ pc' = [pc EXCEPT ![j] = "build"]
      /\ UNCHANGED <<branch, clock, local, log>>
  BY DEF FetchGeoip
<1>2. IsFiles(local[j]) /\ local' = [local EXCEPT ![j] = local[j]] /\ pc'[j] = "build"
  BY <1>1 DEF IInv, TypeOK
<1>3. JobOK(j)'
  BY <1>1, <1>2 DEF JobOK, HasBuilt, IInv
<1> QED BY <1>1, <1>2, <1>3, Moves DEF Step

LEMMA BuildSteps ==
  ASSUME IInv, NEW j \in Job, BuildPool(j)
  PROVE  IInv'
<1>1. PICK kept \in SUBSET Node :
        LET seen == Observe(Load(local[j].seen), kept, clock)
        IN  local' = [local EXCEPT ![j] = [data |-> @.data,
                                           seen |-> [readable |-> TRUE, seen |-> seen],
                                           pool |-> PoolOf(kept, seen, clock),
                                           at   |-> clock]]
  BY DEF BuildPool
<1> DEFINE seen == Observe(branch.seen, kept, clock)
           file == [readable |-> TRUE, seen |-> seen]
           f    == [data |-> local[j].data, seen |-> file, pool |-> PoolOf(kept, seen, clock),
                    at |-> clock]
<1>2. /\ pc[j] = "build" /\ pc' = [pc EXCEPT ![j] = "write"]
      /\ UNCHANGED <<branch, clock, log>>
  BY DEF BuildPool
<1>3. Load(local[j].seen) = branch.seen
  BY <1>2 DEF IInv, JobOK
<1>4. clock \in Hour /\ IsHistory(branch.seen)
  BY <1>1 DEF IInv, TypeOK, IsBranch
<1>5. local' = [local EXCEPT ![j] = f]
  BY <1>1, <1>3
<1>6. IsHistory(seen) /\ kept \subseteq DOMAIN seen.nodes
  BY <1>4, ObserveTyped, KeptObserved
<1> HIDE DEF seen
<1>7. IsPool(PoolOf(kept, seen, clock))
  BY <1>4, <1>6, PoolTyped
<1>8. file.readable = TRUE /\ file.seen = seen /\ file = [readable |-> file.readable, seen |-> file.seen]
  OBVIOUS
<1> HIDE DEF file
<1>9. IsFiles(f)
  BY <1>1, <1>4, <1>6, <1>7, <1>8 DEF IsFiles, IInv, TypeOK
<1>10. f.seen.seen = seen /\ f.pool = PoolOf(kept, seen, clock) /\ f.at = clock
  BY <1>8
<1>11. pc'[j] = "write" /\ local'[j] = f
  BY <1>2, <1>5 DEF IInv, TypeOK
<1> HIDE DEF f
<1>12. BuiltOn(j, kept)'
  BY <1>2, <1>4, <1>10, <1>11 DEF BuiltOn, seen, IInv, TypeOK, IsBranch
<1>13. JobOK(j)'
  BY <1>4, <1>11, <1>12 DEF JobOK, HasBuilt
<1> QED BY <1>2, <1>5, <1>9, <1>13, Moves DEF Step

(* What is checked and published is the pool that was written. *)
LEMMA BuiltDomain ==
  ASSUME NEW j \in Job, NEW kept, BuiltOn(j, kept)
  PROVE  DOMAIN local[j].pool = kept
BY DEF BuiltOn, PoolOf

LEMMA WriteSteps ==
  ASSUME IInv, NEW j \in Job, WritePool(j)
  PROVE  IInv'
<1>1. pc[j] = "write" /\ UNCHANGED <<branch, clock, log>>
  BY DEF WritePool
<1>2. CASE Enough(local[j].pool) /\ pc' = [pc EXCEPT ![j] = "validate"] /\ UNCHANGED local
  <2>1. PICK kept \in SUBSET Node : BuiltOn(j, kept)
    BY <1>1 DEF IInv, JobOK, HasBuilt
  <2>2. Cardinality(kept) >= Threshold
    BY <1>2, <2>1, BuiltDomain DEF Enough
  <2>3. IsFiles(local[j]) /\ local' = [local EXCEPT ![j] = local[j]] /\ pc'[j] = "validate"
    BY <1>2 DEF IInv, TypeOK
  <2>4. BuiltOn(j, kept)'
    BY <1>1, <1>2, <2>1, <2>2 DEF BuiltOn
  <2>5. JobOK(j)'
    BY <2>3, <2>4 DEF JobOK, HasBuilt
  <2> QED BY <1>1, <1>2, <2>3, <2>5, Moves DEF Step
<1>3. CASE Discard(j)
  BY <1>1, <1>3, Ends DEF IInv, TypeOK
<1> QED BY <1>2, <1>3 DEF WritePool

LEMMA ValidateSteps ==
  ASSUME IInv, NEW j \in Job, Validate(j)
  PROVE  IInv'
<1>1. /\ pc[j] = "validate" /\ pc' = [pc EXCEPT ![j] = "publish"]
      /\ UNCHANGED <<branch, clock, local, log>>
  BY DEF Validate
<1>2. IsFiles(local[j]) /\ local' = [local EXCEPT ![j] = local[j]] /\ pc'[j] = "publish"
  BY <1>1 DEF IInv, TypeOK
<1>3. PICK kept \in SUBSET Node : BuiltOn(j, kept)
  BY <1>1 DEF IInv, JobOK, HasBuilt
<1>4. BuiltOn(j, kept)'
  BY <1>1, <1>3 DEF BuiltOn
<1>5. JobOK(j)'
  BY <1>2, <1>4 DEF JobOK, HasBuilt
<1> QED BY <1>1, <1>2, <1>5, Moves DEF Step

(* A publication is a step of PoolBranch. *)
LEMMA PublishReplaces ==
  ASSUME IInv, NEW j \in Job, Publish(j)
  PROVE  /\ Replace
         /\ IsBranch(branch') /\ branch'.exists /\ branch'.at <= clock
<1>1. pc[j] = "publish" /\ branch' = Pushed(local[j])
  BY DEF Publish
<1>2. PICK kept \in SUBSET Node : BuiltOn(j, kept)
  BY <1>1 DEF IInv, JobOK, HasBuilt
<1>3. IsFiles(local[j])
  BY DEF IInv, TypeOK
<1>4. branch' = [exists |-> TRUE, pool |-> local[j].pool, seen |-> local[j].seen.seen,
                 at |-> local[j].at]
  BY <1>1 DEF Pushed
<1>5. branch' = After(branch, kept, local[j].at)
  BY <1>2, <1>4 DEF After, BuiltOn
<1>6. local[j].at \in Hour
  BY <1>3 DEF IsFiles
<1>7. Replace
  BY <1>1, <1>2, <1>5, <1>6 DEF Replace, BuiltOn
<1>8. IsBranch(branch')
  BY <1>3, <1>4 DEF IsBranch, IsFiles
<1> QED BY <1>2, <1>4, <1>7, <1>8 DEF BuiltOn

LEMMA PublishSteps ==
  ASSUME IInv, NEW j \in Job, Publish(j)
  PROVE  IInv'
<1>1. pc[j] # "idle" /\ Discard(j) /\ UNCHANGED clock /\ log' = Append(log, DOMAIN local[j].pool)
  BY DEF Publish
<1>2. log \in Seq(SUBSET Node) /\ DOMAIN local[j].pool \in SUBSET Node
  BY DEF IInv, TypeOK, IsFiles, IsPool
<1>3. log' \in Seq(SUBSET Node)
  BY <1>1, <1>2
<1> QED BY <1>1, <1>3, PublishReplaces, Ends

LEMMA FailSteps ==
  ASSUME IInv, NEW j \in Job, Fail(j)
  PROVE  IInv'
BY Ends DEF Fail, IInv, TypeOK

LEMMA Ticks ==
  ASSUME IInv, Tick
  PROVE  IInv'
<1>1. TypeOK' /\ Alone'
  BY DEF IInv, TypeOK, Alone, Tick
<1>2. clock \in Nat /\ clock' = clock + 1 /\ UNCHANGED <<branch, pc, local, log>>
  BY DEF Tick, IInv, TypeOK
<1>3. branch.at \in Nat
  BY DEF IInv, TypeOK, IsBranch
<1>4. ASSUME NEW j \in Job PROVE JobOK(j)'
  <2>1. IsFiles(local[j]) /\ JobOK(j)
    BY DEF IInv, TypeOK
  <2>2. local[j].at \in Nat
    BY <2>1 DEF IsFiles
  <2>3. ASSUME NEW kept \in SUBSET Node, BuiltOn(j, kept) PROVE BuiltOn(j, kept)'
    BY <1>2, <2>2, <2>3 DEF BuiltOn
  <2> QED BY <1>2, <2>1, <2>3 DEF JobOK, HasBuilt
<1> QED BY <1>1, <1>2, <1>3, <1>4 DEF IInv

-----------------------------------------------------------------------------
LEMMA InitInv == Init => IInv
<1> SUFFICES ASSUME Init PROVE IInv
  OBVIOUS
<1>1. BranchInit /\ clock = 0 /\ log = IF branch.exists THEN <<Legacy>> ELSE << >>
  BY DEF Init
<1>2. log \in Seq(SUBSET Node)
  <2>1. << >> \in Seq(SUBSET Node) /\ <<Legacy>> \in Seq(SUBSET Node)
    OBVIOUS
  <2> QED BY <1>1, <2>1
<1>3. local = [j \in Job |-> NoFiles] /\ pc = [j \in Job |-> "idle"]
  BY DEF Init
<1>4. TypeOK
  BY <1>1, <1>2, <1>3, FirstBranchTyped, NoFilesTyped DEF TypeOK, Step
<1>5. Alone /\ \A j \in Job : JobOK(j)
  BY <1>3 DEF Alone, JobOK, HasBuilt
<1> QED BY <1>1, <1>4, <1>5, FirstBranchTyped DEF IInv

LEMMA NextInv == IInv /\ [Next]_vars => IInv'
<1> SUFFICES ASSUME IInv, [Next]_vars PROVE IInv'
  OBVIOUS
<1>1. CASE Tick
  BY <1>1, Ticks
<1>2. ASSUME NEW j \in Job, Trigger(j) \/ JobStep(j) \/ Fail(j) PROVE IInv'
  BY <1>2, Begins, LsRemoteSteps, CheckoutSteps, SeedSteps, FetchSteps, BuildSteps, WriteSteps,
     ValidateSteps, PublishSteps, FailSteps DEF JobStep
<1>3. CASE UNCHANGED vars
  BY <1>3 DEF vars, IInv, TypeOK, Alone, JobOK, HasBuilt, BuiltOn
<1> QED BY <1>1, <1>2, <1>3 DEF Next

LEMMA Invariance == Spec => []IInv
BY InitInv, NextInv, PTL DEF Spec

(* The states of jobs, machines and branch that a workflow can reach are of  *)
(* their types: collect-nodes.yml.                                           *)
THEOREM TypeCorrect == Spec => []TypeOK
BY Invariance, PTL DEF IInv

(* The branch only changes by the step of a run.                             *)
LEMMA StepReplaces == IInv /\ [Next]_vars => [Replace]_branch
<1> SUFFICES ASSUME IInv, [Next]_vars PROVE Replace \/ UNCHANGED branch
  BY DEF Replace
<1>1. ASSUME NEW j \in Job, Publish(j) PROVE Replace
  BY <1>1, PublishReplaces
<1> QED BY <1>1 DEF Next, vars, Tick, JobStep, Trigger, LsRemote, Checkout, SeedState, FetchGeoip,
                    BuildPool, WritePool, Validate, Fail

(* Whatever jobs are triggered, fail and die, the branch changes as          *)
(* PoolBranch promises: the "Publish to pool-data branch" step.              *)
THEOREM Implements == Spec => ImplementsBranch
<1>1. Init => BranchInit
  BY DEF Init
<1> QED BY <1>1, Invariance, StepReplaces, PTL DEF Spec, ImplementsBranch, BranchSpec

-----------------------------------------------------------------------------
(* What the branch shows. *)

LEMMA FirstPool ==
  ASSUME NEW h, NEW kept, kept \subseteq DOMAIN h.nodes, NEW now
  PROVE  \A n \in DOMAIN PoolOf(kept, h, now) :
           /\ n \in DOMAIN h.nodes
           /\ PoolOf(kept, h, now)[n] = LifetimeFor(h, n, now)
BY DEF PoolOf

LEMMA ReplacedPool ==
  ASSUME IInv, Replace
  PROVE  PoolMatchesSeen'
<1>1. PICK kept \in SUBSET Node, now \in Hour : branch' = After(branch, kept, now)
  BY DEF Replace
<1> DEFINE seen == Observe(branch.seen, kept, now)
<1>2. kept \subseteq DOMAIN seen.nodes
  BY KeptObserved DEF IInv, TypeOK, IsBranch
<1>3. branch' = [exists |-> TRUE, pool |-> PoolOf(kept, seen, now), seen |-> seen, at |-> now]
  BY <1>1 DEF After
<1> HIDE DEF seen
<1> QED BY <1>2, <1>3, FirstPool DEF PoolMatchesSeen

(* Clients and the next run find a pool and a state of the same run on the   *)
(* branch, for every number of jobs and nodes.                               *)
THEOREM PoolAndSeen == Spec => []PoolMatchesSeen
<1>1. Init => PoolMatchesSeen
  <2>1. ASSUME branch = NoBranch PROVE PoolMatchesSeen
    BY <2>1, FirstPool DEF NoBranch, PoolMatchesSeen
  <2>2. ASSUME branch = LegacyBranch PROVE PoolMatchesSeen
    BY <2>2, FirstPool, LegacyTyped DEF LegacyBranch, PoolMatchesSeen
  <2> QED BY <2>1, <2>2 DEF Init, BranchInit
<1>2. IInv /\ PoolMatchesSeen /\ [Next]_vars => PoolMatchesSeen'
  <2>1. UNCHANGED branch => (PoolMatchesSeen => PoolMatchesSeen')
    BY DEF PoolMatchesSeen
  <2> QED BY <2>1, StepReplaces, ReplacedPool
<1> QED BY <1>1, <1>2, Invariance, PTL DEF Spec

(* An entry of the legacy state. *)
LEMMA LegacyEntry ==
  /\ LegacySeen.runs_total = 1
  /\ \A n \in DOMAIN LegacySeen.nodes :
       LegacySeen.nodes[n].seen_runs = 1 /\ LegacySeen.nodes[n].first_run = NoRun
BY DEF LegacySeen

LEMMA FirstShares == Init => ShareOfRuns
<1>1. ASSUME branch = NoBranch PROVE ShareOfRuns
  BY <1>1 DEF NoBranch, EmptySeen, ShareOfRuns
<1>2. ASSUME branch = LegacyBranch PROVE ShareOfRuns
  <2>1. branch.seen = LegacySeen
    BY <1>2 DEF LegacyBranch
  <2>2. ASSUME NEW n \in DOMAIN LegacySeen.nodes PROVE FirstRun(LegacySeen, n) = 1
    BY LegacyEntry DEF FirstRun
  <2> QED BY <2>1, <2>2, LegacyEntry DEF ShareOfRuns
<1> QED BY <1>1, <1>2 DEF Init, BranchInit

LEMMA ReplacedShares ==
  ASSUME IInv, ShareOfRuns, Replace
  PROVE  ShareOfRuns'
<1>1. PICK kept \in SUBSET Node, now \in Hour : branch' = After(branch, kept, now)
  BY DEF Replace
<1> DEFINE old == branch.seen
           new == Observe(old, kept, now)
<1>2. branch'.seen = new
  BY <1>1 DEF After
<1>3. IsHistory(old)
  BY DEF IInv, TypeOK, IsBranch
<1>4. new.runs_total = old.runs_total + 1 /\ old.runs_total \in Nat
  BY <1>3 DEF Observe, IsHistory
<1>5. \A n \in DOMAIN old.nodes :
        old.nodes[n] \in Entry /\ old.nodes[n].seen_runs \in 1 .. old.runs_total - FirstRun(old, n) + 1
  BY <1>3 DEF IsHistory, ShareOfRuns
<1>6. ASSUME NEW n \in DOMAIN new.nodes
      PROVE  new.nodes[n].seen_runs \in 1 .. new.runs_total - FirstRun(new, n) + 1
  <2>1. \/ n \in kept /\ new.nodes[n] = FirstSeen(now, old.runs_total + 1)
        \/ n \in DOMAIN old.nodes \cap kept /\ new.nodes[n] = SeenAgain(old.nodes[n], now)
        \/ n \in DOMAIN old.nodes \ kept /\ new.nodes[n] = old.nodes[n]
    BY <1>3, EntryObserved
  <2> HIDE DEF new, old
  <2>2. CASE new.nodes[n] = FirstSeen(now, old.runs_total + 1)
    <3>1. new.nodes[n].seen_runs = 1 /\ new.nodes[n].first_run = old.runs_total + 1
      BY <2>2 DEF FirstSeen
    <3> QED BY <1>4, <3>1 DEF FirstRun, NoRun
  <2>3. CASE n \in DOMAIN old.nodes /\ new.nodes[n] = SeenAgain(old.nodes[n], now)
    <3>1. /\ new.nodes[n].seen_runs = old.nodes[n].seen_runs + 1
          /\ new.nodes[n].first_run = old.nodes[n].first_run
          /\ old.nodes[n].seen_runs \in Nat /\ old.nodes[n].first_run \in Nat
      BY <1>5, <2>3, AgainTyped DEF Entry
    <3> QED BY <1>4, <1>5, <2>3, <3>1 DEF FirstRun
  <2>4. CASE n \in DOMAIN old.nodes /\ new.nodes[n] = old.nodes[n]
    <3>1. old.nodes[n].seen_runs \in Nat /\ old.nodes[n].first_run \in Nat
      BY <1>5, <2>4 DEF Entry
    <3> QED BY <1>4, <1>5, <2>4, <3>1 DEF FirstRun
  <2> QED BY <2>1, <2>2, <2>3, <2>4
<1> QED BY <1>2, <1>6 DEF ShareOfRuns

(* No entry counts more runs than there were since its node appeared, with   *)
(* or without a first_run, over any number of runs.                          *)
THEOREM Shares == Spec => []ShareOfRuns
<1>1. IInv /\ ShareOfRuns /\ [Next]_vars => ShareOfRuns'
  <2>1. UNCHANGED branch => (ShareOfRuns => ShareOfRuns')
    BY DEF ShareOfRuns
  <2> QED BY <2>1, StepReplaces, ReplacedShares
<1> QED BY <1>1, FirstShares, Invariance, PTL DEF Spec

-----------------------------------------------------------------------------
(* What the entries count. *)

LEMMA RunsGrow ==
  ASSUME NEW Run, NEW runs \in Seq(Run), NEW run, NEW first \in Nat \ {0}, NEW n,
         first <= Len(runs) + 1
  PROVE  /\ IsFiniteSet(Runs(runs, first, n)) /\ Len(runs) + 1 \notin Runs(runs, first, n)
         /\ Runs(Append(runs, run), first, n)
              = Runs(runs, first, n) \cup (IF n \in run THEN {Len(runs) + 1} ELSE {})
<1>1. IsFiniteSet(first .. Len(runs))
  BY FS_Interval
<1>2. IsFiniteSet(Runs(runs, first, n)) /\ Len(runs) + 1 \notin Runs(runs, first, n)
  BY <1>1, FS_Subset DEF Runs
<1>3. /\ Len(Append(runs, run)) = Len(runs) + 1
      /\ \A r \in 1 .. Len(runs) : Append(runs, run)[r] = runs[r]
      /\ Append(runs, run)[Len(runs) + 1] = run
  OBVIOUS
<1> QED BY <1>2, <1>3 DEF Runs

Counted == branch.seen.runs_total = Len(log) /\ CountsRuns

LEMMA PublishCounts ==
  ASSUME IInv, Counted, NEW j \in Job, Publish(j)
  PROVE  Counted'
<1> DEFINE run == DOMAIN local[j].pool
           Run == SUBSET Node
           old == branch.seen
           now == local[j].at
<1>1. pc[j] = "publish" /\ log' = Append(log, run) /\ branch' = Pushed(local[j])
  BY DEF Publish
<1>2. PICK kept \in SUBSET Node : BuiltOn(j, kept)
  BY <1>1 DEF IInv, JobOK, HasBuilt
<1> DEFINE new == Observe(old, kept, now)
<1>3. branch'.seen = new
  BY <1>1, <1>2 DEF Pushed, BuiltOn
<1>4. run = kept
  BY <1>2, BuiltDomain
<1>5. IsHistory(old) /\ now \in Hour /\ log \in Seq(Run)
  BY DEF IInv, TypeOK, IsBranch, IsFiles
<1>6. new.runs_total = old.runs_total + 1 /\ old.runs_total = Len(log) /\ Len(log) \in Nat
  BY <1>5 DEF Observe, IsHistory, Counted
<1> HIDE DEF run, Run
<1>7. Len(log') = Len(log) + 1 /\ log'[Len(log) + 1] = run
      /\ \A r \in 1 .. Len(log) : log'[r] = log[r]
  BY <1>1, <1>5
<1>8. ASSUME NEW n \in DOMAIN new.nodes
      PROVE  LET e == new.nodes[n]
             IN  /\ Since(e) \in 1 .. Len(log')
                 /\ n \in log'[Since(e)]
                 /\ e.seen_runs = Cardinality(Runs(log', Since(e), n))
  <2> DEFINE e == new.nodes[n]
             before == old.nodes[n]
  <2>1. \/ n \in kept /\ e = FirstSeen(now, old.runs_total + 1)
        \/ n \in DOMAIN old.nodes \cap kept /\ e = SeenAgain(before, now)
        \/ n \in DOMAIN old.nodes \ kept /\ e = before
    BY <1>5, EntryObserved
  <2>2. n \in DOMAIN old.nodes =>
          /\ before \in Entry
          /\ Since(before) \in 1 .. Len(log)
          /\ n \in log[Since(before)]
          /\ before.seen_runs = Cardinality(Runs(log, Since(before), n))
    BY <1>5 DEF IsHistory, Counted, CountsRuns, Runs
  <2> HIDE DEF e, before, new, old
  <2>3. CASE n \in kept /\ e = FirstSeen(now, old.runs_total + 1)
    <3>1. Since(e) = Len(log) + 1 /\ e.seen_runs = 1
      BY <1>6, <2>3 DEF FirstSeen, Since, NoRun
    <3>2. Runs(log', Len(log) + 1, n) = {Len(log) + 1}
      BY <1>4, <1>6, <1>7, <2>3 DEF Runs
    <3>3. e.seen_runs = Cardinality(Runs(log', Since(e), n))
      BY <3>1, <3>2, FS_Singleton
    <3>4. Since(e) \in 1 .. Len(log') /\ n \in log'[Since(e)]
      BY <1>4, <1>6, <1>7, <2>3, <3>1
    <3> QED BY <3>3, <3>4 DEF e
  <2>4. CASE n \in DOMAIN old.nodes \cap kept /\ e = SeenAgain(before, now)
    <3> DEFINE runs == Runs(log, Since(before), n)
    <3>1. Since(e) = Since(before) /\ e.seen_runs = before.seen_runs + 1
      BY <1>5, <2>2, <2>4, AgainTyped DEF Since
    <3>2. Since(before) \in Nat \ {0} /\ Since(before) <= Len(log) + 1
      BY <1>6, <2>2, <2>4
    <3>3. /\ IsFiniteSet(runs) /\ Len(log) + 1 \notin runs
          /\ Runs(log', Since(before), n) = runs \cup {Len(log) + 1}
      BY <1>1, <1>4, <1>5, <2>4, <3>2, RunsGrow
    <3> HIDE DEF runs
    <3>4. Cardinality(runs \cup {Len(log) + 1}) = Cardinality(runs) + 1
      BY <3>3, FS_AddElement
    <3> QED BY <1>6, <1>7, <2>2, <2>4, <3>1, <3>3, <3>4 DEF e, runs
  <2>5. CASE n \in DOMAIN old.nodes \ kept /\ e = before
    <3>1. Since(before) \in Nat \ {0} /\ Since(before) <= Len(log) + 1
      BY <1>6, <2>2, <2>5
    <3>2. Runs(log', Since(before), n) = Runs(log, Since(before), n)
      <4>1. Since(before) \in Nat \ {0} /\ Len(log') = Len(log) + 1 /\ n \notin run
        BY <1>4, <1>7, <2>5, <3>1
      <4> HIDE DEF before
      <4> QED BY <1>6, <1>7, <4>1 DEF Runs
    <3>3. e.seen_runs = Cardinality(Runs(log', Since(e), n))
      BY <2>2, <2>5, <3>2
    <3>4. Since(e) \in 1 .. Len(log) /\ n \in log[Since(e)]
      BY <2>2, <2>5
    <3>5. Since(e) \in 1 .. Len(log') /\ n \in log'[Since(e)]
      BY <1>6, <1>7, <3>4
    <3> QED BY <3>3, <3>5 DEF e
  <2> QED BY <2>1, <2>3, <2>4, <2>5 DEF e
<1> HIDE DEF new
<1> QED BY <1>3, <1>6, <1>7, <1>8 DEF Counted, CountsRuns, Runs

LEMMA FirstCounts == Init => Counted
<1>1. ASSUME branch = NoBranch, log = << >> PROVE Counted
  BY <1>1 DEF NoBranch, EmptySeen, Counted, CountsRuns
<1>2. ASSUME branch = LegacyBranch, log = <<Legacy>> PROVE Counted
  <2>1. branch.seen = LegacySeen /\ Len(log) = 1 /\ log[1] = Legacy
    BY <1>2 DEF LegacyBranch
  <2>2. ASSUME NEW n \in DOMAIN LegacySeen.nodes
        PROVE  LET e == LegacySeen.nodes[n]
               IN  Since(e) = 1 /\ n \in log[1] /\ e.seen_runs = Cardinality(Runs(log, 1, n))
    <3>1. n \in Legacy
      BY LegacyTyped
    <3>2. Runs(log, 1, n) = {1}
      BY <2>1, <3>1 DEF Runs
    <3> QED BY <2>1, <3>1, <3>2, LegacyEntry, FS_Singleton DEF Since
  <2> QED BY <2>1, <2>2, LegacyEntry DEF Counted, CountsRuns
<1> QED BY <1>1, <1>2, LegacyBranchTyped DEF Init, BranchInit, NoBranch

LEMMA CountedInvariance == Spec => []Counted
<1>1. IInv /\ Counted /\ [Next]_vars => Counted'
  <2> SUFFICES ASSUME IInv, Counted, [Next]_vars PROVE Counted'
    OBVIOUS
  <2>1. ASSUME NEW j \in Job, Publish(j) PROVE Counted'
    BY <2>1, PublishCounts
  <2>2. CASE UNCHANGED <<branch, log>>
    BY <2>2 DEF Counted, CountsRuns, Runs
  <2> QED BY <2>1, <2>2 DEF Next, vars, Tick, JobStep, Trigger, LsRemote, Checkout, SeedState,
                            FetchGeoip, BuildPool, WritePool, Validate, Fail
<1> QED BY <1>1, FirstCounts, Invariance, PTL DEF Spec

(* An entry counts exactly the published runs that kept its node, for every  *)
(* sequence of jobs: SeenState.observe behind the workflow.                  *)
THEOREM Counts == Spec => []CountsRuns
BY CountedInvariance, PTL DEF Counted

(* A node whose entry says when it appeared is shown with a full share when  *)
(* no published run since has missed it, and, over fewer than 2 * Scale runs, *)
(* only then: lifetime_for.                                                  *)
THEOREM Shows == Spec => []MissedRunsShow
<1>1. IInv /\ Counted /\ PoolMatchesSeen => MissedRunsShow
  <2> SUFFICES ASSUME IInv, Counted, PoolMatchesSeen, NEW n \in DOMAIN branch.pool,
                      branch.seen.nodes[n].first_run # NoRun
               PROVE  LET e    == branch.seen.nodes[n]
                          all  == e.first_run .. Len(log)
                          full == branch.pool[n].stability = Scale
                      IN  /\ Runs(log, e.first_run, n) = all => full
                          /\ full /\ Len(log) - e.first_run + 1 < 2 * Scale
                               => Runs(log, e.first_run, n) = all
    BY DEF MissedRunsShow
  <2> DEFINE e == branch.seen.nodes[n]
             first == e.first_run
             all == first .. Len(log)
             since == Len(log) - first + 1
  <2>1. n \in DOMAIN branch.seen.nodes /\ branch.pool[n].stability = Stability(branch.seen, n)
    <3>1. branch.pool[n] = LifetimeFor(branch.seen, n, branch.at)
      BY DEF PoolMatchesSeen
    <3>2. LifetimeFor(branch.seen, n, branch.at).stability = Stability(branch.seen, n)
      BY DEF LifetimeFor
    <3> QED BY <3>1, <3>2 DEF PoolMatchesSeen
  <2>2. /\ first \in 1 .. Len(log) /\ e.seen_runs = Cardinality(Runs(log, first, n))
        /\ branch.seen.runs_total = Len(log)
    BY <2>1 DEF Counted, CountsRuns, Since
  <2>3. Len(log) \in Nat
    BY DEF IInv, TypeOK
  <2>4. IsFiniteSet(all) /\ Cardinality(all) = Len(log) - first + 1
    <3>1. first \in Int /\ first <= Len(log)
      BY <2>2, <2>3
    <3> HIDE DEF first
    <3> QED BY <2>3, <3>1, FS_Interval
  <2>5. Runs(log, first, n) \in SUBSET all
    BY DEF Runs
  <2>6. /\ Cardinality(Runs(log, first, n)) <= Cardinality(all)
        /\ Cardinality(Runs(log, first, n)) = Cardinality(all) => Runs(log, first, n) = all
    BY <2>4, <2>5, FS_Subset
  <2>7. e.seen_runs \in Nat
    BY <2>1 DEF IInv, TypeOK, IsBranch, IsHistory, Entry
  <2>8. FirstRun(branch.seen, n) = first
    BY DEF FirstRun
  <2>9. since \in Nat \ {0}
    BY <2>2, <2>3
  <2>10. Stability(branch.seen, n) = AtMostAll(Rounded(e.seen_runs, since))
    BY <2>2, <2>3, <2>8, <2>9 DEF Stability, AtLeastOne
  <2>11. Runs(log, first, n) = all => AtMostAll(Rounded(e.seen_runs, since)) = Scale
    <3>1. Rounded(since, since) = Scale
      BY <2>9, AllIsAll
    <3>2. Runs(log, first, n) = all => e.seen_runs = since
      BY <2>2, <2>4
    <3> QED BY <3>1, <3>2 DEF AtMostAll
  <2>12. Runs(log, first, n) # all /\ since < 2 * Scale
           => AtMostAll(Rounded(e.seen_runs, since)) # Scale
    <3> SUFFICES ASSUME Runs(log, first, n) # all, since < 2 * Scale
                 PROVE  AtMostAll(Rounded(e.seen_runs, since)) # Scale
      OBVIOUS
    <3>1. e.seen_runs < since
      BY <2>2, <2>4, <2>6, <2>7, <2>9
    <3>2. Rounded(e.seen_runs, since) \in Nat /\ Rounded(e.seen_runs, since) < Scale
      BY <2>7, <2>9, <3>1, RoundedTyped, LessIsLess
    <3> QED BY <3>2, SeenAssumption DEF AtMostAll
  <2> HIDE DEF e, first
  <2> QED BY <2>1, <2>10, <2>11, <2>12 DEF e, first
<1> QED BY <1>1, Invariance, CountedInvariance, PoolAndSeen, PTL
=============================================================================
