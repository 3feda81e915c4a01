-------------------------------- MODULE Core --------------------------------
(***************************************************************************)
(* What the native core promises its callers: the process has at most one  *)
(* tunnel engine, and wrnStart, wrnStop and wrnSelect each take effect at  *)
(* one instant.  Bridge builds on these operators; module Engine models    *)
(* the Go code step by step and is shown to implement this specification.  *)
(***************************************************************************)
EXTENDS Integers, Sequences

CONSTANTS
  Node,       \* the nodes of the pool
  Mode,       \* "proxy" and "vpn"
  Rejected,   \* nodes whose outbound the core's sanitiser or sing-box refuses
  CoreCap,    \* maxCandidates of the core: longer lists are cut
  Lists,      \* the candidate lists a caller may pass, the wanted node first
  NoSession   \* no engine is running

(***************************************************************************)
(* A running engine: the list it was given, the indices of that list that  *)
(* survived validation (acceptedIdx), the index traffic leaves through and *)
(* the mode it was started in.                                             *)
(***************************************************************************)
Session == [list : Seq(Node), accepted : SUBSET Nat, active : Nat, mode : Mode]

ASSUME CoreAssumption ==
  /\ Rejected \subseteq Node
  /\ CoreCap \in Nat \ {0}
  /\ \A l \in Lists : l \in Seq(Node) /\ l # << >>
  /\ NoSession \notin Session

VARIABLE session   \* the running engine, or NoSession

CoreTypeOK == session \in Session \cup {NoSession}

CoreInit == session = NoSession

isRunning == session # NoSession

(***************************************************************************)
(* Every candidate is sanitised and constructed on its own; a bad one is   *)
(* dropped, but the indices of the others do not shift.                    *)
(***************************************************************************)
Accepted(list) ==
  {i \in 1 .. Len(list) : i <= CoreCap /\ list[i] \notin Rejected}

NewSession(list, mode) ==
  [list |-> list, accepted |-> Accepted(list), active |-> 1, mode |-> mode]

(***************************************************************************)
(* wrnStart answers rc.  On top of a running engine it changes nothing and *)
(* answers 0.  Otherwise it may fail (ports, privileges, the TUN adapter), *)
(* and it must fail when the wanted node itself is refused.                *)
(***************************************************************************)
CoreStart(list, mode, rc) ==
  \/ isRunning /\ rc = 0 /\ UNCHANGED session
  \/ ~isRunning /\ rc = 1 /\ UNCHANGED session
  \/ ~isRunning /\ rc = 0 /\ 1 \in Accepted(list)
     /\ session' = NewSession(list, mode)

CoreStop == session' = NoSession

(***************************************************************************)
(* wrnSelect moves traffic to candidate i of the caller's list.  It needs  *)
(* a selector group (two accepted candidates) and an accepted i.           *)
(***************************************************************************)
CanSelect(i) ==
  /\ isRunning
  /\ \E j, k \in session.accepted : j # k
  /\ i \in session.accepted

CoreSelect(i) == CanSelect(i) /\ session' = [session EXCEPT !.active = i]

CoreNext ==
  \/ \E list \in Lists, mode \in Mode : CoreStart(list, mode, 0)
  \/ CoreStop
  \/ \E i \in 1 .. CoreCap : CoreSelect(i)

CoreSpec == CoreInit /\ [][CoreNext]_session
=============================================================================
