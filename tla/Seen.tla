-------------------------------- MODULE Seen --------------------------------
(* collector, pipeline/lifetime.py: what state/seen.json remembers of the    *)
(* nodes over the runs, and the lifetime block derived from it.  Times are   *)
(* hours.  A node is whatever identifies it: its stable id.                  *)
EXTENDS Integers

CONSTANTS FreshMax,   \* FRESH_MAX_H
          ShortMax,   \* SHORT_MAX_H
          Window,     \* window_h
          Scale       \* 1000: shares are rounded to so many parts

ASSUME SeenAssumption ==
  FreshMax \in Nat /\ ShortMax \in Nat /\ Window \in Nat /\ Scale \in Nat \ {0}

NoRun == 0                  \* first_run of an entry written before it existed
EmptySeen == [runs_total |-> 0, nodes |-> [n \in {} |-> {}]]

(* The file as load finds it: absent, unreadable or a state.  A history that *)
(* cannot be read is given up.                                              *)
Load(file) == IF file.readable THEN file.seen ELSE EmptySeen

(* What a first and a repeated observation make of a node's entry. *)
FirstSeen(now, run) ==
  [first_seen |-> now, last_seen |-> now, seen_runs |-> 1, first_run |-> run]

(* Wrong: the count starts over. *)
SeenAfresh(entry, now) == [entry EXCEPT !.last_seen = now, !.seen_runs = 1]

SeenAgain(entry, now) == [entry EXCEPT !.last_seen = now, !.seen_runs = @ + 1]

(* Entries not seen for longer than the window are dropped. *)
Pruned(nodes, now) ==
  [n \in {m \in DOMAIN nodes : nodes[m].last_seen >= now - Window} |-> nodes[n]]

Observe(seen, present, now) ==
  LET run     == seen.runs_total + 1
      known   == DOMAIN seen.nodes
      Entry(n) == IF n \notin known THEN FirstSeen(now, run)
                  ELSE IF n \in present THEN SeenAgain(seen.nodes[n], now)
                  ELSE seen.nodes[n]
  IN  [runs_total |-> run,
       nodes      |-> Pruned([n \in known \cup present |-> Entry(n)], now)]

ClassifyAge(age) ==
  IF age < FreshMax THEN "fresh"
  ELSE IF age <= ShortMax THEN "short_lived" ELSE "long_lived"

(* The run a node appeared in.  An entry that does not say is taken to have  *)
(* been there in every run since.                                            *)
FirstRun(seen, n) ==
  LET e == seen.nodes[n]
  IN  IF e.first_run = NoRun THEN seen.runs_total - e.seen_runs + 1 ELSE e.first_run

AtLeastOne(k) == IF k > 1 THEN k ELSE 1

(* round(runs / since, 3).  Half-way cases, of 16 runs and more, are rounded *)
(* up here; Python leaves them to the float.                                 *)
Rounded(runs, since) == (2 * Scale * runs + since) \div (2 * since)

AtMostAll(share) == IF share > Scale THEN Scale ELSE share

(* Wrong: the run it appeared in is not counted. *)
StabilityAfter(seen, n) ==
  LET since == AtLeastOne(seen.runs_total - AtLeastOne(FirstRun(seen, n)))
  IN  AtMostAll(Rounded(seen.nodes[n].seen_runs, since))

(* The share of the runs since it appeared, of Scale. *)
Stability(seen, n) ==
  LET since == AtLeastOne(seen.runs_total - AtLeastOne(FirstRun(seen, n)) + 1)
  IN  AtMostAll(Rounded(seen.nodes[n].seen_runs, since))

LifetimeFor(seen, n, now) ==
  LET e   == seen.nodes[n]
      age == IF now >= e.first_seen THEN now - e.first_seen ELSE 0
  IN  [first_seen |-> e.first_seen, last_seen |-> e.last_seen, class |-> ClassifyAge(age),
       seen_runs |-> e.seen_runs, stability |-> Stability(seen, n)]
=============================================================================
