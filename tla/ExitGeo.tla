------------------------------ MODULE ExitGeo -------------------------------
(***************************************************************************)
(* Where each node's traffic comes out (app/lib/state/exit_geo.dart): the  *)
(* answers of several geolocation sources summed up, the store they are    *)
(* recorded in, and its copy on disk.                                      *)
(***************************************************************************)
EXTENDS Integers, Sequences, FiniteSets, Sublists

CONSTANTS
  Node,
  Country,
  NoCountry,   \* a source that could not tell; no dispute
  Unknown,     \* nobody could tell: null
  Sources,     \* how many geolocation sources a test asks
  Opinions     \* what they may answer, in order of trust

ASSUME ExitGeoAssumption ==
  /\ NoCountry \notin Country
  /\ Sources \in Nat
  /\ Opinions \subseteq Seq(Country \cup {NoCountry})

VARIABLES
  exits,   \* the state of ExitGeoNotifier
  exitBox  \* its copy in the session box

exitVars == <<exits, exitBox>>

Exit == [country : Country, disputedWith : Country \cup {NoCountry}, sources : Nat]

ExitTypeOK ==
  /\ exits \in [Node -> Exit \cup {Unknown}]
  /\ exitBox \in [Node -> Exit \cup {Unknown}]

ExitInit ==
  /\ exits = [n \in Node |-> Unknown]
  /\ exitBox = exits

-----------------------------------------------------------------------------
(* Sources that could not tell are skipped.                                 *)
Named(ops) == Sublist(ops, {i \in DOMAIN ops : ops[i] # NoCountry})

Votes(seen, c) == Cardinality({i \in DOMAIN seen : seen[i] = c})

(* A wrong variant: a later country need only draw level.                   *)
LeaderOfLast(seen) ==
  LET best[i \in DOMAIN seen] ==
        IF i > 1 /\ Votes(seen, seen[i]) < Votes(seen, best[i - 1]) THEN best[i - 1]
        ELSE seen[i]
  IN  best[Len(seen)]

(* The running best of fromOpinions: a later country has to beat it.        *)
Leader(seen) ==
  LET best[i \in DOMAIN seen] ==
        IF i > 1 /\ Votes(seen, seen[i]) <= Votes(seen, best[i - 1]) THEN best[i - 1]
        ELSE seen[i]
  IN  best[Len(seen)]

(* The first answer that differs from the leader's.                         *)
Dissent(seen) ==
  LET others == {i \in DOMAIN seen : seen[i] # Leader(seen)}
  IN  IF others = {} THEN NoCountry ELSE seen[Min(others)]

FromOpinions(ops) ==
  IF Named(ops) = << >> THEN Unknown
  ELSE [country |-> Leader(Named(ops)), disputedWith |-> Dissent(Named(ops)),
        sources |-> Len(Named(ops))]

Confirms(exit, wanted) ==
  exit # Unknown /\ exit.country = wanted /\ exit.disputedWith = NoCountry

(* What record keeps: "could not tell" erases nothing, nor does a poorer    *)
(* observation of the same country.                                         *)
Kept(old, seen) ==
  IF \/ seen = Unknown
     \/ old # Unknown /\ seen.country = old.country /\ seen.sources < old.sources
  THEN old ELSE seen

Record(n, ops) ==
  /\ exits' = [exits EXCEPT ![n] = Kept(exits[n], FromOpinions(ops))]
  /\ UNCHANGED exitBox

(* _persist, two seconds later: what was seen within a week.                *)
SaveExits ==
  /\ \E old \in SUBSET Node :
       exitBox' = [n \in Node |-> IF n \in old THEN Unknown ELSE exits[n]]
  /\ UNCHANGED exits

(* build, after a restart.                                                  *)
LoadExits ==
  /\ \E old \in SUBSET Node :
       exits' = [n \in Node |-> IF n \in old THEN Unknown ELSE exitBox[n]]
  /\ UNCHANGED exitBox

-----------------------------------------------------------------------------
(* "The country most sources named; the first one asked wins a tie", and a  *)
(* dispute exactly when two of them named different countries: so a node    *)
(* never seen is recorded for every answer that Sources sources may give.   *)
PluralityOfFirst ==
  \A n \in Node, ops \in [1 .. Sources -> Country \cup {NoCountry}] :
    LET seen == Named(ops)
        exit == Kept(exits[n], FromOpinions(ops))
        First(c) == Min({i \in DOMAIN seen : seen[i] = c})
    IN  exits[n] = Unknown =>
          IF seen = << >> THEN exit = Unknown
          ELSE /\ \A i \in DOMAIN seen :
                    \/ Votes(seen, exit.country) > Votes(seen, seen[i])
                    \/ /\ Votes(seen, exit.country) = Votes(seen, seen[i])
                       /\ First(exit.country) <= First(seen[i])
               /\ exit.disputedWith = NoCountry <=>
                    \A i, j \in DOMAIN seen : seen[i] = seen[j]
=============================================================================
